---- MODULE Spec2Model ----
(***************************************************************************)
(* Static risk-analysis service (CodeGram-MW): per-language detectors, the *)
(* shared resource-risk heuristics, result aggregation and the decision    *)
(* engine, with the /v1/analyze endpoint that drives them.                 *)
(*                                                                         *)
(* Source text is a sequence of lexemes.  A lexeme is a maximal run of     *)
(* word characters [A-Za-z0-9_] (a "word"), a blank, a newline, one level  *)
(* of indentation, or one punctuation character.  The regular expressions *)
(* of the rule tables are evaluated on that sequence: \b falls exactly     *)
(* between a word and a non-word lexeme, \s* skips whitespace lexemes.     *)
(* Every source of the model is shorter than the 400 and 600 character     *)
(* windows of the resource heuristics.  ast.parse is the                   *)
(* library parser: a source built from Python statements parses to the     *)
(* tree it was rendered from, and a source holding anything else raises.   *)
(***************************************************************************)
EXTENDS Integers, Sequences, FiniteSets, TLC

VARIABLES
    pc,        \* "idle", "pending" with a text in hand, "returned" after the call
    fn,        \* the handler or function that ran
    inCode,    \* its source-text argument
    inHint,    \* the request's language field
    lang,      \* the resolved language (endpoint only)
    result,    \* the detector's result
    response,  \* the endpoint's response
    arg,       \* the score given to the decision engine
    ret,       \* what decision_logic, suggest_limits or the resource checks gave
    _client,   \* openai_tagger._client: the model client, or None without a key
    cache,     \* the /tmp/emoji_cache_<sha256>.json files, by the code hashed
    attempt,   \* model calls made for the request being tagged
    local_fallback_callable  \* that argument of get_openai_emojis_safe

\* the state of the emoji tagging
tagging == <<_client, cache, attempt, local_fallback_callable>>

vars == <<pc, fn, inCode, inHint, lang, result, response, arg, ret, tagging>>

(***************************************************************************)
(* Bounds of the model.                                                    *)
(***************************************************************************)
MaxStmts == 2          \* statements (or foreign snippets) per request
ScoreSlack == 3        \* scores fed to the decision engine: -Slack..100+Slack

(***************************************************************************)
(* Generic sequence helpers.                                               *)
(***************************************************************************)
Range(s) == {s[i] : i \in 1..Len(s)}

RECURSIVE Flatten(_)
Flatten(ss) == IF ss = <<>> THEN <<>> ELSE Head(ss) \o Flatten(Tail(ss))

RECURSIVE SumSeq(_)
SumSeq(s) == IF s = <<>> THEN 0 ELSE Head(s) + SumSeq(Tail(s))

Max(a, b) == IF a >= b THEN a ELSE b
Min(a, b) == IF a <= b THEN a ELSE b

(***************************************************************************)
(* Lexemes.                                                                *)
(***************************************************************************)
SP == " "
NL == "\n"
IND == "    "
Space == {SP, NL, IND}
Punct == {"(", ")", "{", "}", "[", "]", ";", ":", ".", ",", "=", "*",
          "<", ">", "\"", "'", "#", "!", "+"}

IsSpace(l) == l \in Space
IsWord(l) == l \notin (Space \cup Punct)

At(t, i) == IF i >= 1 /\ i <= Len(t) THEN t[i] ELSE ""
WordAt(t, i) == i >= 1 /\ i <= Len(t) /\ IsWord(t[i])

\* index of the first lexeme at or after i that is not whitespace (\s*)
RECURSIVE SkipWs(_, _)
SkipWs(t, i) == IF i <= Len(t) /\ IsSpace(t[i]) THEN SkipWs(t, i + 1) ELSE i

\* re.IGNORECASE on the words of the vocabulary that have upper-case letters
Lower(w) ==
    CASE w = "Popen" -> "popen"
      [] w = "System" -> "system"
      [] w = "True" -> "true"
      [] w = "Thread" -> "thread"
      [] w = "Runtime" -> "runtime"
      [] w = "ProcessBuilder" -> "processbuilder"
      [] w = "getRuntime" -> "getruntime"
      [] w = "ServerSocket" -> "serversocket"
      [] w = "Files" -> "files"
      [] w = "Python" -> "python"
      [] w = "Java" -> "java"
      [] OTHER -> w

(***************************************************************************)
(* Python syntax trees (the node classes of module ast that the detector   *)
(* looks at).  An import alias is the sequence of its dotted parts.        *)
(***************************************************************************)
Name(id) == [type |-> "Name", id |-> id]
Attribute(value, attr) == [type |-> "Attribute", value |-> value, attr |-> attr]
Constant(kind, repr) == [type |-> "Constant", kind |-> kind, repr |-> repr]
Call(func, args) == [type |-> "Call", func |-> func, args |-> args]
Expr(value) == [type |-> "Expr", value |-> value]
Pass == [type |-> "Pass"]
Break == [type |-> "Break"]
Return == [type |-> "Return"]
Raise == [type |-> "Raise"]
Import(names) == [type |-> "Import", names |-> names]
ImportFrom(module, names) == [type |-> "ImportFrom", module |-> module, names |-> names]
While(test, body, orelse) == [type |-> "While", test |-> test, body |-> body, orelse |-> orelse]
For(target, iter, body, orelse) ==
    [type |-> "For", target |-> target, iter |-> iter, body |-> body, orelse |-> orelse]
If(test, body, orelse) == [type |-> "If", test |-> test, body |-> body, orelse |-> orelse]
ExceptHandler(body) == [type |-> "ExceptHandler", body |-> body]
Try(body, handlers, orelse, finalbody) ==
    [type |-> "Try", body |-> body, handlers |-> handlers, orelse |-> orelse,
     finalbody |-> finalbody]
WithItem(context_expr) == [type |-> "withitem", context_expr |-> context_expr]
With(items, body) == [type |-> "With", items |-> items, body |-> body]
FunctionDef(name, body) == [type |-> "FunctionDef", name |-> name, body |-> body]
ClassDef(name, body) == [type |-> "ClassDef", name |-> name, body |-> body]
Module(body) == [type |-> "Module", body |-> body]
\* text that is not Python: kept as the lexemes it consists of
Raw(text) == [type |-> "Raw", text |-> text]
\* a comment line; the parser drops it, so it is no node of the tree
Comment(text) == [type |-> "Comment", text |-> text]

(***************************************************************************)
(* The text of a source: statements one per line, four blanks per level.   *)
(***************************************************************************)
Indent(k) == [i \in 1..k |-> IND]

RECURSIVE JoinWith(_, _)
JoinWith(ss, sep) ==
    IF ss = <<>> THEN <<>>
    ELSE IF Len(ss) = 1 THEN Head(ss)
    ELSE Head(ss) \o sep \o JoinWith(Tail(ss), sep)

Dotted(parts) == JoinWith([i \in 1..Len(parts) |-> <<parts[i]>>], <<".">>)

RECURSIVE RenderExpr(_)
RenderExpr(e) ==
    CASE e.type = "Name" -> <<e.id>>
      [] e.type = "Attribute" -> RenderExpr(e.value) \o <<".", e.attr>>
      [] e.type = "Constant" ->
            IF e.kind = "str"
            THEN <<"\"">> \o (IF e.repr = "" THEN <<>> ELSE <<e.repr>>) \o <<"\"">>
            ELSE <<e.repr>>
      [] e.type = "Call" ->
            RenderExpr(e.func) \o <<"(">>
            \o JoinWith([i \in 1..Len(e.args) |-> RenderExpr(e.args[i])], <<",", SP>>)
            \o <<")">>

RECURSIVE RenderStmt(_, _)
RECURSIVE RenderBody(_, _)
RenderBody(stmts, k) == Flatten([i \in 1..Len(stmts) |-> RenderStmt(stmts[i], k)])

RenderElse(orelse, k) ==
    IF orelse = <<>> THEN <<>>
    ELSE Indent(k) \o <<"else", ":", NL>> \o RenderBody(orelse, k + 1)

RenderStmt(s, k) ==
    CASE s.type = "Raw" -> s.text \o <<NL>>
      [] s.type = "Comment" -> Indent(k) \o <<"#", SP>> \o s.text \o <<NL>>
      [] s.type = "Pass" -> Indent(k) \o <<"pass", NL>>
      [] s.type = "Break" -> Indent(k) \o <<"break", NL>>
      [] s.type = "Return" -> Indent(k) \o <<"return", NL>>
      [] s.type = "Raise" -> Indent(k) \o <<"raise", NL>>
      [] s.type = "Expr" -> Indent(k) \o RenderExpr(s.value) \o <<NL>>
      [] s.type = "Import" ->
            Indent(k) \o <<"import", SP>>
            \o JoinWith([i \in 1..Len(s.names) |-> Dotted(s.names[i])], <<",", SP>>)
            \o <<NL>>
      [] s.type = "ImportFrom" ->
            Indent(k) \o <<"from", SP>> \o Dotted(s.module) \o <<SP, "import", SP>>
            \o JoinWith([i \in 1..Len(s.names) |-> Dotted(s.names[i])], <<",", SP>>)
            \o <<NL>>
      [] s.type = "While" ->
            Indent(k) \o <<"while", SP>> \o RenderExpr(s.test) \o <<":", NL>>
            \o RenderBody(s.body, k + 1) \o RenderElse(s.orelse, k)
      [] s.type = "If" ->
            Indent(k) \o <<"if", SP>> \o RenderExpr(s.test) \o <<":", NL>>
            \o RenderBody(s.body, k + 1) \o RenderElse(s.orelse, k)
      [] s.type = "For" ->
            Indent(k) \o <<"for", SP>> \o RenderExpr(s.target) \o <<SP, "in", SP>>
            \o RenderExpr(s.iter) \o <<":", NL>>
            \o RenderBody(s.body, k + 1) \o RenderElse(s.orelse, k)
      [] s.type = "Try" ->
            Indent(k) \o <<"try", ":", NL>> \o RenderBody(s.body, k + 1)
            \o Flatten([i \in 1..Len(s.handlers) |->
                  Indent(k) \o <<"except", ":", NL>>
                  \o RenderBody(s.handlers[i].body, k + 1)])
            \o RenderElse(s.orelse, k)
            \o (IF s.finalbody = <<>> THEN <<>>
                ELSE Indent(k) \o <<"finally", ":", NL>> \o RenderBody(s.finalbody, k + 1))
      [] s.type = "With" ->
            Indent(k) \o <<"with", SP>>
            \o JoinWith([i \in 1..Len(s.items) |-> RenderExpr(s.items[i].context_expr)],
                        <<",", SP>>)
            \o <<":", NL>> \o RenderBody(s.body, k + 1)
      [] s.type = "FunctionDef" ->
            Indent(k) \o <<"def", SP, s.name, "(", ")", ":", NL>>
            \o RenderBody(s.body, k + 1)
      [] s.type = "ClassDef" ->
            Indent(k) \o <<"class", SP, s.name, ":", NL>> \o RenderBody(s.body, k + 1)

\* the request's code as text
Text(code) == RenderBody(code, 0)

\* ast.parse(code): the tree, or an exception
ParseFails(code) == \E i \in 1..Len(code) : code[i].type = "Raw"
Parse(code) == Module(SelectSeq(code, LAMBDA s : s.type # "Comment"))

\* ast.iter_child_nodes, in field order
Children(n) ==
    CASE n.type = "Module" -> n.body
      [] n.type = "Expr" -> <<n.value>>
      [] n.type = "Call" -> <<n.func>> \o n.args
      [] n.type = "Attribute" -> <<n.value>>
      [] n.type \in {"While", "If"} -> <<n.test>> \o n.body \o n.orelse
      [] n.type = "For" -> <<n.target, n.iter>> \o n.body \o n.orelse
      [] n.type = "Try" -> n.body \o n.handlers \o n.orelse \o n.finalbody
      [] n.type = "With" -> n.items \o n.body
      [] n.type = "withitem" -> <<n.context_expr>>
      [] n.type \in {"ExceptHandler", "FunctionDef", "ClassDef"} -> n.body
      [] OTHER -> <<>>

\* ast.walk: breadth-first, the node itself first
RECURSIVE WalkQueue(_)
WalkQueue(todo) ==
    IF todo = <<>> THEN <<>>
    ELSE <<Head(todo)>> \o WalkQueue(Tail(todo) \o Children(Head(todo)))

Walk(tree) == WalkQueue(<<tree>>)

(***************************************************************************)
(* Result aggregation (detectors/base.py).                                 *)
(***************************************************************************)
\* make_result without the clamp of line 12
make_result_unclamped(score, reasons, blocked, style, hard_block) ==
    [score |-> score,
     reasons |-> reasons,
     blocked |-> blocked,
     style |-> style,
     hard_block |-> hard_block]

\* make_result with one reasons list shared by all calls (a mutable default
\* argument): the reasons of the result still held are kept in front
make_result_shared(score, reasons, blocked, style, hard_block) ==
    [score |-> Max(0, Min(100, score)),
     reasons |-> result.reasons \o reasons,
     blocked |-> blocked,
     style |-> style,
     hard_block |-> hard_block]

\* the style of a detector that passes none: style or {}
EmptyStyle == [k \in {} |-> 0]

make_result(score, reasons, blocked, style, hard_block) ==
    [score |-> Max(0, Min(100, score)),
     reasons |-> reasons,
     blocked |-> blocked,
     style |-> style,
     hard_block |-> hard_block]

\* The capability tokens in ascending order of their code points, which is
\* the order sorted() gives strings.
TokenOrder ==
    <<"infinite-loop", "no-ctypes", "no-exec", "no-fork", "no-httpx", "no-large-alloc",
      "no-multiprocessing", "no-os", "no-requests", "no-socket", "no-subprocess",
      "no-sys", "no-system-call", "no-threading">>

\* the tokens as they were appended
SortedSet_asis(blocked) == blocked

\* the places where a token outside TokenOrder stands for the first time
FirstUnranked(blocked) ==
    SelectSeq([i \in 1..Len(blocked) |-> i],
              LAMBDA i : /\ blocked[i] \notin Range(TokenOrder)
                         /\ \A j \in 1..(i - 1) : blocked[j] # blocked[i])

\* list(sorted(set(blocked))): the tokens of TokenOrder in their order; a
\* token outside it is kept, once, behind them
SortedSet(blocked) ==
    SelectSeq(TokenOrder, LAMBDA tok : tok \in Range(blocked))
    \o [k \in 1..Len(FirstUnranked(blocked)) |-> blocked[FirstUnranked(blocked)[k]]]

\* A rule table is a sequence of (pattern, weight, description); a finding is
\* what one hit adds: points, a reason and possibly a capability token.
Rule(pat, pts, msg) == [pat |-> pat, pts |-> pts, msg |-> msg]
Finding(pts, reason, token) == [pts |-> pts, reason |-> reason, token |-> token]

Points(fs) == SumSeq([i \in 1..Len(fs) |-> fs[i].pts])
Reasons(fs) == [i \in 1..Len(fs) |-> fs[i].reason]
Tokens(fs) ==
    LET hit == SelectSeq(fs, LAMBDA f : f.token # "")
    IN  [i \in 1..Len(hit) |-> hit[i].token]

(***************************************************************************)
(* Python detector (detectors/python_rules.py).                            *)
(***************************************************************************)
\* words of the vocabulary that end in "__import__" (the pattern has no \b)
EndsWithDunderImport(w) == w \in {"__import__", "my__import__"}

\* re.IGNORECASE: the search runs on the text folded to lower case, with the
\* literals of the pattern in lower case
Fold(t) == [i \in 1..Len(t) |-> Lower(t[i])]
Subject(t, ic) == IF ic THEN Fold(t) ELSE t
\* the lexeme at i of the subject of a search
W(t, i, ic) == At(t, i)

\* name\s*\(  with name one of the given words
CallOf(t, i, names, ic) == W(t, i, ic) \in names /\ At(t, SkipWs(t, i + 1)) = "("

\* digit runs of the vocabulary, with their values
NumValue(l) ==
    CASE l = "0" -> 0
      [] l = "1" -> 1
      [] l = "2" -> 2
      [] l = "4096" -> 4096
      [] l = "500000" -> 500000
      [] l = "1000000" -> 1000000
      [] OTHER -> -1
IsNumber(l) == NumValue(l) >= 0
NumDigits(l) ==
    CASE NumValue(l) < 0 -> 0
      [] NumValue(l) < 10 -> 1
      [] NumValue(l) < 10000 -> 4
      [] NumValue(l) < 1000000 -> 6
      [] OTHER -> 7

\* ([0-9]{n,}) as a whole lexeme at i
DigitsAt(t, i, n) == IsNumber(At(t, i)) /\ NumDigits(At(t, i)) >= n

\* re.search(pattern, code, flags=re.MULTILINE) on the lexemes
re_search_py(pat, t) ==
    CASE pat = "\\b(eval|exec)\\b" ->
            \E i \in 1..Len(t) : t[i] \in {"eval", "exec"}
      [] pat = "\\b(subprocess|Popen|system\\()\\b" ->
            \E i \in 1..Len(t) :
                \/ t[i] \in {"subprocess", "Popen"}
                \/ t[i] = "system" /\ At(t, i + 1) = "(" /\ WordAt(t, i + 2)
      [] pat = "\\b(socket\\.|requests\\.|httpx\\.)" ->
            \E i \in 1..Len(t) :
                t[i] \in {"socket", "requests", "httpx"} /\ At(t, i + 1) = "."
      [] pat = "\\bwhile\\s*True\\b" ->
            \E i \in 1..Len(t) :
                \/ t[i] = "whileTrue"
                \/ t[i] = "while" /\ IsSpace(At(t, i + 1))
                   /\ At(t, SkipWs(t, i + 1)) = "True"
      [] pat = "\\bos\\.fork\\b" ->
            \E i \in 1..Len(t) :
                t[i] = "os" /\ At(t, i + 1) = "." /\ At(t, i + 2) = "fork"
      [] pat = "__import__\\(" ->
            \E i \in 1..Len(t) : EndsWithDunderImport(t[i]) /\ At(t, i + 1) = "("
      [] pat = "\\b(ctypes\\.|cffi\\.)" ->
            \E i \in 1..Len(t) : t[i] \in {"ctypes", "cffi"} /\ At(t, i + 1) = "."

GENERIC_FORBIDDEN ==
    <<Rule("\\b(eval|exec)\\b", 35, "dynamic code execution"),
      Rule("\\b(subprocess|Popen|system\\()\\b", 30, "process execution"),
      Rule("\\b(socket\\.|requests\\.|httpx\\.)", 10, "network access"),
      Rule("\\bwhile\\s*True\\b", 20, "infinite loop (static pattern)"),
      Rule("\\bos\\.fork\\b", 40, "fork bomb risk"),
      Rule("__import__\\(", 25, "bypass import"),
      Rule("\\b(ctypes\\.|cffi\\.)", 25, "native call")>>

PY_FORBIDDEN_IMPORTS ==
    [subprocess |-> 35, socket |-> 12, os |-> 8, sys |-> 6, multiprocessing |-> 14,
     threading |-> 8, httpx |-> 8, requests |-> 8, ctypes |-> 25]

\* the regex quick checks: one finding per rule that matches, in table order
\* score += pts; reasons.append(msg) for each rule that hit
RuleFindings(hit) == [i \in 1..Len(hit) |-> Finding(hit[i].pts, hit[i].msg, "")]

PyLexicalFindings(t) ==
    RuleFindings(SelectSeq(GENERIC_FORBIDDEN, LAMBDA r : re_search_py(r.pat, t)))

IsExitCall(node) ==
    /\ node.type = "Expr"
    /\ node.value.type = "Call"
    /\ \/ node.value.func.type = "Name" /\ node.value.func.id \in {"exit", "quit"}
       \/ /\ node.value.func.type = "Attribute"
          /\ node.value.func.attr \in {"exit", "abort", "terminate"}

\* a descent into the body field only: no else-branch, handler or finally
InnerBodies_bodyonly(node) ==
    IF node.type \in {"If", "For", "While", "With", "Try"} THEN <<node.body>> ELSE <<>>

\* the bodies the escape scan descends into
InnerBodies(node) ==
    CASE node.type \in {"If", "For", "While"} -> <<node.body, node.orelse>>
      [] node.type = "With" -> <<node.body>>
      [] node.type = "Try" ->
            <<node.body, node.orelse>>
            \o [i \in 1..Len(node.handlers) |-> node.handlers[i].body]
            \o (IF node.finalbody # <<>> THEN <<node.finalbody>> ELSE <<>>)
      [] OTHER -> <<>>

\* an escape scan that finds no exit in any body
_body_has_exit_statements_never(stmts) == FALSE

RECURSIVE _body_has_exit_statements(_)
_body_has_exit_statements(stmts) ==
    \E i \in 1..Len(stmts) :
        \/ stmts[i].type \in {"Break", "Return", "Raise"}
        \/ IsExitCall(stmts[i])
        \/ \E j \in 1..Len(InnerBodies(stmts[i])) :
              _body_has_exit_statements(InnerBodies(stmts[i])[j])

_is_constant_true_test(test_node) ==
    CASE test_node.type = "Constant" ->
            CASE test_node.kind = "bool" -> test_node.repr = "True"
              [] test_node.kind = "int" -> test_node.repr # "0"
              [] test_node.kind = "str" -> test_node.repr # ""
              [] OTHER -> FALSE
      [] test_node.type = "Name" -> test_node.id = "True"
      [] OTHER -> FALSE

\* the name a call goes to: a plain name, or the last attribute
CalledName(func) ==
    CASE func.type = "Name" -> func.id
      [] func.type = "Attribute" -> func.attr
      [] OTHER -> ""

LoopReasons(node) ==
    CASE node.type = "While" ->
            IF _is_constant_true_test(node.test) /\ ~_body_has_exit_statements(node.body)
            THEN <<"infinite loop: constant True while without exit">> ELSE <<>>
      [] node.type = "For" ->
            IF node.iter.type = "Call" /\ CalledName(node.iter.func) = "count"
            THEN <<"infinite loop: for in 'count()'">> ELSE <<>>
      [] node.type = "Call" ->
            IF node.func.type = "Name" /\ node.func.id = "iter" /\ Len(node.args) = 2
            THEN <<"infinite loop: iter(callable, sentinel)">> ELSE <<>>
      [] OTHER -> <<>>

_detect_infinite_loops_in_ast(tree) ==
    LET nodes == Walk(tree)
    IN  Flatten([i \in 1..Len(nodes) |-> LoopReasons(nodes[i])])

\* an import check without the table lookup of line 134: every module is
\* charged as os is
ImportFindings_every(node) ==
    [i \in 1..Len(node.names) |->
        Finding(PY_FORBIDDEN_IMPORTS["os"], "risky module: " \o Head(node.names[i]), "no-os")]

\* forbidden imports / calls: what one node of the walk adds
ImportFindings(node) ==
    LET risky == SelectSeq(node.names, LAMBDA alias : Head(alias) \in DOMAIN PY_FORBIDDEN_IMPORTS)
    IN  [i \in 1..Len(risky) |->
            Finding(PY_FORBIDDEN_IMPORTS[Head(risky[i])],
                    "risky module: " \o Head(risky[i]),
                    "no-" \o Head(risky[i]))]

\* a walk that gives the dynamic-execution finding a token of its own
NodeFindings_tokened(node) ==
    CASE node.type \in {"Import", "ImportFrom"} -> ImportFindings(node)
      [] node.type = "Call" ->
            IF CalledName(node.func) \in {"eval", "exec"}
            THEN <<Finding(30, "dynamic execution function: " \o CalledName(node.func),
                           "no-" \o CalledName(node.func))>>
            ELSE <<>>
      [] OTHER -> <<>>

NodeFindings(node) ==
    CASE node.type \in {"Import", "ImportFrom"} -> ImportFindings(node)
      [] node.type = "Call" ->
            IF CalledName(node.func) \in {"eval", "exec"}
            THEN <<Finding(30, "dynamic execution function: " \o CalledName(node.func), "")>>
            ELSE <<>>
      [] OTHER -> <<>>

\* a penalty charged for every finding instead of once for the step
InfiniteLoopFindings_each(inf_reasons) ==
    [i \in 1..Len(inf_reasons) |-> Finding(90, inf_reasons[i], "infinite-loop")]

\* the +90 of an infinite-loop finding: once, with one reason per finding
InfiniteLoopFindings(inf_reasons) ==
    IF inf_reasons = <<>> THEN <<>>
    ELSE <<Finding(90, Head(inf_reasons), "infinite-loop")>>
         \o [i \in 1..(Len(inf_reasons) - 1) |-> Finding(0, inf_reasons[i + 1], "")]

\* the body of the try block, once ast.parse has returned the tree
\* 1) forbidden imports / calls, over ast.walk(tree)
WalkFindings(nodes) == Flatten([i \in 1..Len(nodes) |-> NodeFindings(nodes[i])])

PyTreeFindings(tree) ==
    WalkFindings(Walk(tree)) \o InfiniteLoopFindings(_detect_infinite_loops_in_ast(tree))

(***************************************************************************)
(* Style metrics (app/utils.py).  A float is kept as the fraction it is    *)
(* the quotient of; round(x, n) gives an integer number of 10^-n.          *)
(***************************************************************************)
Fraction(num, den) == [num |-> num, den |-> den]

\* the lines of a text, without their line ends
LineEnds(t) == SelectSeq([i \in 1..Len(t) |-> i], LAMBDA i : t[i] = NL)
LineAt(t, ends, k) == SubSeq(t, IF k = 1 THEN 1 ELSE ends[k - 1] + 1, ends[k] - 1)
LinesOf(t, ends) == [k \in 1..Len(ends) |-> LineAt(t, ends, k)]
Lines(t) == LinesOf(t, LineEnds(t))

\* tokenize on one line: the place of the # that opens a comment (one past
\* the end when there is none), the lexemes that are tokens or string
\* delimiters, the column of the first of them
QuoteMarks == {"\"", "'"}
QuotesBefore(line, i) == Cardinality({j \in 1..(i - 1) : line[j] \in QuoteMarks})
CommentAt(line) ==
    LET hits == {i \in 1..Len(line) : line[i] = "#" /\ QuotesBefore(line, i) % 2 = 0}
    IN  IF hits = {} THEN Len(line) + 1 ELSE CHOOSE i \in hits : \A j \in hits : i <= j
CodeAt(line, end) ==
    {i \in 1..(end - 1) :
        /\ ~IsSpace(line[i])
        /\ (line[i] \in QuoteMarks \/ QuotesBefore(line, i) % 2 = 0)}
LineTokenCount(line, code) ==
    Cardinality({i \in code : line[i] \notin QuoteMarks})
    + (Cardinality({i \in code : line[i] \in QuoteMarks}) \div 2)
LineDepth(line, code) ==
    Cardinality({i \in code : line[i] \in {"(", "[", "{"}})
    - Cardinality({i \in code : line[i] \in {")", "]", "}"}})
Column(line) ==
    4 * Cardinality({i \in 1..Len(line) : line[i] = IND /\ \A j \in 1..i : IsSpace(line[j])})
    + Cardinality({i \in 1..Len(line) : line[i] = SP /\ \A j \in 1..i : IsSpace(line[j])})
CommentCount(line) == IF CommentAt(line) <= Len(line) THEN 1 ELSE 0

\* the tokenizer between two lines: bracket depth, indentation stack, the
\* tokens counted so far (all but ENCODING and NL), the COMMENT tokens among
\* them, and whether it has raised
TokenizerStart == [parenlev |-> 0, indents |-> <<0>>, total |-> 0, comments |-> 0, ok |-> TRUE]

\* INDENT and DEDENT tokens in front of a statement at the given column
Reindent(st, column) ==
    IF column > st.indents[Len(st.indents)]
    THEN [st EXCEPT !.indents = Append(@, column), !.total = @ + 1]
    ELSE IF column \notin Range(st.indents) THEN [st EXCEPT !.ok = FALSE]
    ELSE [st EXCEPT !.indents = SelectSeq(@, LAMBDA c : c <= column),
                    !.total = @ + Cardinality({i \in 1..Len(st.indents) :
                                                  st.indents[i] > column})]

\* the tokens of the line, its COMMENT, and NEWLINE when no bracket is open
\* at its end (NL otherwise)
ScanLine(st, line, tokens, depth) ==
    [st EXCEPT !.parenlev = @ + depth,
               !.comments = @ + CommentCount(line),
               !.total = @ + tokens + CommentCount(line)
                         + (IF st.parenlev + depth > 0 THEN 0 ELSE 1)]

TokenizeLine(st, line, code) ==
    IF st.parenlev # 0 THEN ScanLine(st, line, LineTokenCount(line, code), LineDepth(line, code))
    ELSE IF code = {}
    THEN [st EXCEPT !.comments = @ + CommentCount(line), !.total = @ + CommentCount(line)]
    ELSE ScanLine(Reindent(st, Column(line)), line,
                  LineTokenCount(line, code), LineDepth(line, code))

\* end of input: TokenError inside a bracket, else the pending DEDENTs and
\* ENDMARKER
TokenizeEnd(st) ==
    IF st.parenlev # 0 THEN [st EXCEPT !.ok = FALSE]
    ELSE [st EXCEPT !.total = @ + (Len(st.indents) - 1) + 1]

RECURSIVE Tokenize(_, _, _)
Tokenize(lines, k, st) ==
    IF ~st.ok THEN st
    ELSE IF k > Len(lines) THEN TokenizeEnd(st)
    ELSE Tokenize(lines, k + 1,
                  TokenizeLine(st, lines[k], CodeAt(lines[k], CommentAt(lines[k]))))

\* comments / total, 0.0 when there is no token or tokenize raised
CommentShare(st) ==
    IF st.ok /\ st.total > 0 THEN Fraction(st.comments, st.total) ELSE Fraction(0, 1)

comment_ratio(t) == CommentShare(Tokenize(Lines(t), 1, TokenizerStart))

\* end - start + 1 of a function: its last line that begins a node is the
\* last line of its text
FunctionLength(node) == Len(LineEnds(RenderStmt(node, 0)))

MeanLength(defs) ==
    IF defs = <<>> THEN Fraction(0, 1)
    ELSE Fraction(SumSeq([i \in 1..Len(defs) |-> FunctionLength(defs[i])]), Len(defs))

avg_function_len_python(tree) ==
    MeanLength(SelectSeq(Walk(tree), LAMBDA n : n.type = "FunctionDef" /\ n.body # <<>>))

\* round to the nearest integer, a tie to the even one
RoundHalfEven(num, den) ==
    IF 2 * (num % den) < den THEN num \div den
    ELSE IF 2 * (num % den) > den THEN (num \div den) + 1
    ELSE IF (num \div den) % 2 = 0 THEN num \div den
    ELSE (num \div den) + 1

\* round(x, 3) in thousandths.  round works on the double nearest to x: the
\* doubles nearest to 1/80, 3/80 and 7/80 are not the ties the fractions are
\* (the first lies above, the other two below); all other ties of fractions
\* with fewer than 400 tokens are doubles themselves.
Round3(x) ==
    IF 80 * x.num = x.den THEN 13
    ELSE IF 80 * x.num = 3 * x.den THEN 37
    ELSE IF 80 * x.num = 7 * x.den THEN 87
    ELSE RoundHalfEven(1000 * x.num, x.den)

\* round(x, 1) in tenths
Round1(x) == RoundHalfEven(10 * x.num, x.den)

\* style: comment_ratio in thousandths, avg_function_length in tenths
PyStyle(code) ==
    [comment_ratio |-> Round3(comment_ratio(Text(code))),
     avg_function_length |->
        IF ParseFails(code) THEN 0 ELSE Round1(avg_function_len_python(Parse(code)))]

\* an except branch that adds nothing
PyParseFailure_silent == <<>>

\* the except branch
PyParseFailure == <<Finding(5, "AST parse failure", "")>>

PyFindings(code) ==
    PyLexicalFindings(Text(code))
    \o (IF ParseFails(code) THEN PyParseFailure ELSE PyTreeFindings(Parse(code)))

\* return make_result(score, reasons, list(sorted(set(blocked))), style)
PyResult(fs, style) ==
    make_result(Points(fs), Reasons(fs), SortedSet(Tokens(fs)), style, FALSE)

analyze_python(code) == PyResult(PyFindings(code), PyStyle(code))

(***************************************************************************)
(* Decision engine (scoring.py).                                           *)
(***************************************************************************)
\* decision_logic with the thresholds exclusive
decision_logic_exclusive(score) ==
    IF score > 70 THEN <<"block", FALSE>>
    ELSE IF score > 40 THEN <<"sandbox", FALSE>>
    ELSE <<"allow", TRUE>>

decision_logic(score) ==
    IF score >= 70 THEN <<"block", FALSE>>
    ELSE IF score >= 40 THEN <<"sandbox", FALSE>>
    ELSE <<"allow", TRUE>>

\* lo + (hi - lo) * (1 - t) is evaluated in IEEE-754 doubles and truncated by
\* int().  With t = score / 100 the double result is the exact value except
\* that for hi - lo = 240 it falls just below the integers 124, 64 and 40 at
\* scores 55, 80 and 90, so that int() gives one less.
DoubleShortfall(span, score) == IF span = 240 /\ score \in {55, 80, 90} THEN 1 ELSE 0

\* the interpolation from the strict end upwards
Interpolate_rising(strict, generous, score) ==
    (strict * 100 + (generous - strict) * Min(Max(score, 0), 100)) \div 100

\* the interpolation without min(max(..., 0), 1) around t
Interpolate_unclamped(strict, generous, score) ==
    ((strict * 100 + (generous - strict) * (100 - score)) \div 100)
    - DoubleShortfall(generous - strict, score)

Interpolate(strict, generous, score) ==
    LET s == Min(Max(score, 0), 100)          \* t = min(max(score / 100, 0), 1)
        span == generous - strict
    IN  ((strict * 100 + span * (100 - s)) \div 100) - DoubleShortfall(span, s)

suggest_limits(score, language) ==
    IF language = "python"
    THEN [cpu_time_sec |-> Interpolate(1, 10, score),
          memory_mb |-> Interpolate(64, 512, score),
          wall_time_sec |-> Interpolate(2, 20, score),
          stdout_kb |-> Interpolate(16, 256, score)]
    ELSE [cpu_time_sec |-> 2, memory_mb |-> 128, wall_time_sec |-> 5, stdout_kb |-> 64]

(***************************************************************************)
(* Resource-risk heuristics (detectors/resource_utils.py).  Every search   *)
(* of this file but the two of the break check and the recursion snippet   *)
(* runs under re.IGNORECASE.                                               *)
(***************************************************************************)
\* \s*x1\s*x2... : the lexemes toks from i on, blanks allowed before each
RECURSIVE WsSeq(_, _, _)
WsSeq(t, i, toks) ==
    \/ toks = <<>>
    \/ At(t, SkipWs(t, i)) = Head(toks) /\ WsSeq(t, SkipWs(t, i) + 1, Tail(toks))

\* no lexeme of t[a..b] is in chars  ([^...]*)
NoneIn(t, a, b, chars) == \A k \in a..b : t[k] \notin chars

Quote == {"\"", "'"}

\* words of the vocabulary with the given ending or content, in the folded
\* text of a search under re.IGNORECASE
EndsWithNew(w) == w \in {"new", "renew"}
EndsWithDef(w) == w \in {"def", "undef"}
EndsWithChildProcess(w) == w \in {"child_process"}
EndsWithRuntime(w) == w \in {"runtime"}
StartsWithSpawn(w) ==
    w \in {"exec", "execsync", "spawn", "spawnsync", "fork", "execv", "execve",
                  "execvp", "execvpe"}
ContainsLoopWord(w) == w \in {"while", "for", "fork", "whiletrue"}
EndsWithIOName(w) ==
    w \in {"read", "fread", "fgets", "fscanf", "write", "fwrite", "send", "recv",
                  "readline", "readlines", "readinto", "writefile", "writefilesync",
                  "thread"}
\* w ends with the function name f (\1 of the recursion snippet)
EndsWithName(w, f) ==
    \/ w = f
    \/ f = "f" /\ w \in {"if", "def", "elif", "undef"}

\* re.search(pat, text, re.IGNORECASE if ic else 0), t being Subject(text, ic)
re_search(pat, t, ic) ==
    CASE pat = "\\bwhile\\s*\\(\\s*1\\s*\\)" ->
            \E i \in 1..Len(t) : W(t, i, ic) = "while" /\ WsSeq(t, i + 1, <<"(", "1", ")">>)
      [] pat = "\\bfor\\s*\\(\\s*;\\s*;\\s*\\)" ->
            \E i \in 1..Len(t) :
                W(t, i, ic) = "for" /\ WsSeq(t, i + 1, <<"(", ";", ";", ")">>)
      [] pat = "\\bwhile\\s+True\\s*:" ->
            \E i \in 1..Len(t) :
                /\ W(t, i, ic) = "while" /\ IsSpace(At(t, i + 1))
                /\ W(t, SkipWs(t, i + 1), ic) = (IF ic THEN "true" ELSE "True")
                /\ WsSeq(t, SkipWs(t, i + 1) + 1, <<":">>)
      [] pat = "\\bdo\\s*\\{[\\s\\S]*?\\}\\s*while\\s*\\(1\\)" ->
            \E i \in 1..Len(t) :
                /\ W(t, i, ic) = "do" /\ At(t, SkipWs(t, i + 1)) = "{"
                /\ \E j \in (SkipWs(t, i + 1) + 1)..Len(t) :
                      /\ t[j] = "}"
                      /\ W(t, SkipWs(t, j + 1), ic) = "while"
                      /\ LET p == SkipWs(t, SkipWs(t, j + 1) + 1)
                         IN  At(t, p) = "(" /\ At(t, p + 1) = "1" /\ At(t, p + 2) = ")"
      [] pat = "\\bfork\\s*\\(" ->
            \E i \in 1..Len(t) : CallOf(t, i, {"fork"}, ic)
      [] pat = "\\bexec(v|ve|vp|vpe)?\\s*\\(" ->
            \E i \in 1..Len(t) :
                CallOf(t, i, {"exec", "execv", "execve", "execvp", "execvpe"}, ic)
      [] pat = "\\bsystem\\s*\\(" ->
            \E i \in 1..Len(t) : CallOf(t, i, {"system"}, ic)
      [] pat = "\\bpopen\\s*\\(" ->
            \E i \in 1..Len(t) : CallOf(t, i, {"popen"}, ic)
      [] pat = "\\bptrace\\s*\\(" ->
            \E i \in 1..Len(t) : CallOf(t, i, {"ptrace"}, ic)
      [] pat = "\\bmalloc\\s*\\(" ->
            \E i \in 1..Len(t) : CallOf(t, i, {"malloc"}, ic)
      [] pat = "\\b(socket\\s*\\(|accept\\s*\\(|recv\\s*\\()" ->
            \E i \in 1..Len(t) : CallOf(t, i, {"socket", "accept", "recv"}, ic)
      [] pat = "\\bThread\\s*\\(" ->
            \E i \in 1..Len(t) : CallOf(t, i, {IF ic THEN "thread" ELSE "Thread"}, ic)
      [] pat = "\\bstd::thread\\b" ->
            \E i \in 1..Len(t) :
                /\ W(t, i, ic) = "std" /\ At(t, i + 1) = ":" /\ At(t, i + 2) = ":"
                /\ W(t, i + 3, ic) = "thread"
      [] pat = "child_process\\.(exec|spawn|fork|execSync|spawnSync)" ->
            \E i \in 1..Len(t) :
                EndsWithChildProcess(t[i]) /\ At(t, i + 1) = "." /\ StartsWithSpawn(At(t, i + 2))
      [] pat = "Runtime\\.getRuntime\\(\\)\\.exec\\s*\\(" ->
            \E i \in 1..Len(t) :
                /\ IF ic THEN EndsWithRuntime(t[i]) ELSE t[i] = "Runtime"
                /\ At(t, i + 1) = "."
                /\ W(t, i + 2, ic) = (IF ic THEN "getruntime" ELSE "getRuntime")
                /\ At(t, i + 3) = "(" /\ At(t, i + 4) = ")" /\ At(t, i + 5) = "."
                /\ CallOf(t, i + 6, {"exec"}, ic)
      [] pat = "new\\s+ProcessBuilder\\s*\\(" ->
            \E i \in 1..Len(t) :
                /\ IF ic THEN EndsWithNew(t[i]) ELSE t[i] \in {"new", "renew"}
                /\ IsSpace(At(t, i + 1))
                /\ CallOf(t, SkipWs(t, i + 1),
                          {IF ic THEN "processbuilder" ELSE "ProcessBuilder"}, ic)
      [] pat = "\\bsubprocess\\.(Popen|call|run|check_output)\\s*\\(" ->
            \E i \in 1..Len(t) :
                /\ W(t, i, ic) = "subprocess" /\ At(t, i + 1) = "."
                /\ CallOf(t, i + 2, {IF ic THEN "popen" ELSE "Popen", "call", "run",
                                     "check_output"}, ic)
      [] pat = "\\bServerSocket\\b" ->
            \E i \in 1..Len(t) : W(t, i, ic) = (IF ic THEN "serversocket" ELSE "ServerSocket")
      [] pat = "\\bfopen\\s*\\([^\\)]*['\\\"]w['\\\"]" ->
            \E i \in 1..Len(t) :
                /\ CallOf(t, i, {"fopen"}, ic)
                /\ \E q \in (SkipWs(t, i + 1) + 1)..Len(t) :
                      /\ t[q] \in Quote /\ W(t, q + 1, ic) = "w" /\ At(t, q + 2) \in Quote
                      /\ NoneIn(t, SkipWs(t, i + 1) + 1, q - 1, {")"})
      [] pat = "\\bofstream\\b" ->
            \E i \in 1..Len(t) : W(t, i, ic) = "ofstream"
      [] pat \in {"\\bopen\\([^,]+,[^)]*['\\\"]w['\\\"]", "\\bopen\\([^,]+,[^)]*['\\\"]wb['\\\"]"} ->
            \E i \in 1..Len(t) :
                /\ W(t, i, ic) = "open" /\ At(t, i + 1) = "("
                /\ \E c \in (i + 3)..Len(t) :
                      /\ t[c] = "," /\ NoneIn(t, i + 2, c - 1, {","})
                      /\ \E q \in (c + 1)..Len(t) :
                            /\ t[q] \in Quote /\ At(t, q + 2) \in Quote
                            /\ W(t, q + 1, ic) =
                                  (IF pat = "\\bopen\\([^,]+,[^)]*['\\\"]w['\\\"]"
                                   THEN "w" ELSE "wb")
                            /\ NoneIn(t, c + 1, q - 1, {")"})
      [] pat = "\\bfs\\.(writeFile|writeFileSync|appendFile|unlink|rm)\\b" ->
            \E i \in 1..Len(t) :
                /\ W(t, i, ic) = "fs" /\ At(t, i + 1) = "."
                /\ W(t, i + 2, ic) \in (IF ic THEN {"writefile", "writefilesync", "appendfile",
                                                  "unlink", "rm"}
                                         ELSE {"writeFile", "writeFileSync", "appendFile",
                                               "unlink", "rm"})
      [] pat = "\\bFiles\\.(write|delete|move)\\b" ->
            \E i \in 1..Len(t) :
                /\ W(t, i, ic) = (IF ic THEN "files" ELSE "Files") /\ At(t, i + 1) = "."
                /\ W(t, i + 2, ic) \in {"write", "delete", "move"}
      [] pat = "\\b(eval|exec)\\b" ->
            \E i \in 1..Len(t) : W(t, i, ic) \in {"eval", "exec"}
      [] pat = "\\b(fork|system\\()\\b" ->
            \E i \in 1..Len(t) :
                \/ W(t, i, ic) = "fork"
                \/ W(t, i, ic) = "system" /\ At(t, i + 1) = "(" /\ WordAt(t, i + 2)
      [] pat = "\\bwhile\\b|\\bfor\\b" ->
            \E i \in 1..Len(t) : W(t, i, ic) \in {"while", "for"}
      [] pat = "\\bbreak\\b" ->
            \E i \in 1..Len(t) : W(t, i, ic) = "break"
      [] pat = "\\b(exec|system|popen|Runtime\\.getRuntime|child_process\\.)\\b" ->
            \E i \in 1..Len(t) :
                \/ W(t, i, ic) \in {"exec", "system", "popen"}
                \/ /\ W(t, i, ic) = "runtime" /\ At(t, i + 1) = "."
                   /\ W(t, i + 2, ic) = "getruntime"
                \/ W(t, i, ic) = "child_process" /\ At(t, i + 1) = "." /\ WordAt(t, i + 2)
      [] pat = "\\bfork\\b|\\bspawn\\b" ->
            \E i \in 1..Len(t) : W(t, i, ic) \in {"fork", "spawn"}
      [] pat = "\\bmalloc\\b|\\bcalloc\\b|\\bnew\\s+[^\\s]+\\s*\\[" ->
            \E i \in 1..Len(t) :
                \/ W(t, i, ic) \in {"malloc", "calloc"}
                \/ /\ W(t, i, ic) = "new" /\ IsSpace(At(t, i + 1))
                   /\ \E q \in SkipWs(t, i + 1)..Len(t) :
                         /\ At(t, SkipWs(t, q + 1)) = "["
                         /\ NoneIn(t, SkipWs(t, i + 1), q, Space)

INFINITE_LOOP_PATTERNS ==
    <<"\\bwhile\\s*\\(\\s*1\\s*\\)",
      "\\bfor\\s*\\(\\s*;\\s*;\\s*\\)",
      "\\bwhile\\s+True\\s*:",
      "\\bdo\\s*\\{[\\s\\S]*?\\}\\s*while\\s*\\(1\\)">>

LARGE_ALLOC_PATTERNS ==
    <<"\\bmalloc\\s*\\(\\s*([0-9]{6,})\\s*\\)",
      "\\bcalloc\\s*\\(\\s*([0-9]{6,})\\s*,",
      "new\\s+[a-zA-Z_0-9:<>]+\\s*\\[\\s*([0-9]{6,})\\s*\\]",
      "\\bstd::vector<[^>]+>\\s*\\w+\\s*\\(\\s*([0-9]{6,})\\s*\\)",
      "\\b(np|numpy)\\.(zeros|ones|empty)\\s*\\(\\s*\\(?\\s*([0-9]{4,})",
      "\\bbytearray\\s*\\(\\s*([0-9]{6,})\\s*\\)">>

PROCESS_THREAD_PATTERNS ==
    <<"\\bfork\\s*\\(",
      "\\bexec(v|ve|vp|vpe)?\\s*\\(",
      "\\bsystem\\s*\\(",
      "\\bThread\\s*\\(",
      "\\bstd::thread\\b",
      "child_process\\.(exec|spawn|fork|execSync|spawnSync)",
      "Runtime\\.getRuntime\\(\\)\\.exec\\s*\\(",
      "new\\s+ProcessBuilder\\s*\\(",
      "\\bsubprocess\\.(Popen|call|run|check_output)\\s*\\(">>

FILE_WRITE_PATTERNS ==
    <<"\\bfopen\\s*\\([^\\)]*['\\\"]w['\\\"]",
      "\\bofstream\\b",
      "\\bopen\\([^,]+,[^)]*['\\\"]w['\\\"]",
      "\\bfs\\.(writeFile|writeFileSync|appendFile|unlink|rm)\\b",
      "\\bFiles\\.(write|delete|move)\\b",
      "\\bopen\\([^,]+,[^)]*['\\\"]wb['\\\"]">>

\* [a-zA-Z_0-9:<>]+ from a on: the index after the run
RECURSIVE TypeRunEnd(_, _)
TypeRunEnd(t, a) ==
    IF a <= Len(t) /\ (IsWord(t[a]) \/ t[a] \in {":", "<", ">"})
    THEN TypeRunEnd(t, a + 1) ELSE a

\* index of the first lexeme ch at or after a (Len(t) + 1 if none)
RECURSIVE FirstOf(_, _, _)
FirstOf(t, a, ch) == IF a <= Len(t) /\ t[a] # ch THEN FirstOf(t, a + 1, ch) ELSE a

\* The digits a LARGE_ALLOC pattern captures when it matches from lexeme i on
\* (the first group that is all digits), "" when it does not match there.
AllocDigitsAt(pat, t, i) ==
    LET open == SkipWs(t, i + 1)        \* the "(" of name\s*\(
        num == SkipWs(t, open + 1)
        sized(name, close) ==
            IF /\ CallOf(t, i, {name}, TRUE) /\ DigitsAt(t, num, 6)
               /\ At(t, SkipWs(t, num + 1)) = close
            THEN t[num] ELSE ""
    IN
    CASE pat = LARGE_ALLOC_PATTERNS[1] -> sized("malloc", ")")
      [] pat = LARGE_ALLOC_PATTERNS[2] -> sized("calloc", ",")
      [] pat = LARGE_ALLOC_PATTERNS[6] -> sized("bytearray", ")")
      [] pat = LARGE_ALLOC_PATTERNS[3] ->
            LET a == SkipWs(t, i + 1)
                e == TypeRunEnd(t, a)
                d == SkipWs(t, SkipWs(t, e) + 1)
            IN  IF /\ EndsWithNew(t[i]) /\ IsSpace(At(t, i + 1)) /\ e > a
                   /\ At(t, SkipWs(t, e)) = "[" /\ DigitsAt(t, d, 6)
                   /\ At(t, SkipWs(t, d + 1)) = "]"
                THEN t[d] ELSE ""
      [] pat = LARGE_ALLOC_PATTERNS[4] ->
            LET gt == FirstOf(t, i + 5, ">")
                nm == SkipWs(t, gt + 1)
                op == SkipWs(t, nm + 1)
                d == SkipWs(t, op + 1)
            IN  IF /\ t[i] = "std" /\ At(t, i + 1) = ":" /\ At(t, i + 2) = ":"
                   /\ At(t, i + 3) = "vector" /\ At(t, i + 4) = "<"
                   /\ gt > i + 5 /\ At(t, gt) = ">" /\ WordAt(t, nm)
                   /\ At(t, op) = "(" /\ DigitsAt(t, d, 6)
                   /\ At(t, SkipWs(t, d + 1)) = ")"
                THEN t[d] ELSE ""
      [] pat = LARGE_ALLOC_PATTERNS[5] ->
            LET op == SkipWs(t, i + 3)
                b == SkipWs(t, op + 1)
                d == IF At(t, b) = "(" THEN SkipWs(t, b + 1) ELSE b
            IN  IF /\ t[i] \in {"np", "numpy"} /\ At(t, i + 1) = "."
                   /\ At(t, i + 2) \in {"zeros", "ones", "empty"}
                   /\ At(t, op) = "(" /\ DigitsAt(t, d, 4)
                THEN t[d] ELSE ""

\* m = re.search(p, code): the digits of the leftmost match, "" if none
AllocDigits(pat, t) ==
    LET starts == {i \in 1..Len(t) : AllocDigitsAt(pat, t, i) # ""}
    IN  IF starts = {} THEN ""
        ELSE AllocDigitsAt(pat, t, CHOOSE i \in starts : \A j \in starts : i <= j)

IO_IN_LOOP_SNIPPET(t) ==
    \E j \in 1..Len(t) :
        /\ EndsWithIOName(t[j]) /\ At(t, SkipWs(t, j + 1)) = "("
        /\ \E i \in 1..(j - 1) : ContainsLoopWord(t[i])

IOCallCount(t) ==
    Cardinality({i \in 1..Len(t) :
        t[i] \in {"write", "send", "recv", "fwrite", "fputs", "fprintf",
                  "writefilesync"}})

RECURSION_SNIPPET(t) ==
    \E i \in 1..Len(t) :
        LET n == SkipWs(t, i + 1)
            a == SkipWs(t, n + 1)
        IN  /\ EndsWithDef(t[i]) /\ IsSpace(At(t, i + 1))
            /\ WordAt(t, n) /\ ~IsNumber(t[n]) /\ At(t, a) = "("
            /\ \E c \in (a + 1)..Len(t) :
                  /\ t[c] = ")" /\ At(t, c + 1) = ":" /\ NoneIn(t, a + 1, c - 1, {NL})
                  /\ \E j \in (c + 2)..Len(t) :
                        EndsWithName(t[j], t[n]) /\ At(t, SkipWs(t, j + 1)) = "("

\* one finding of pts per pattern of the table that matches
\* the patterns of a table that match the folded text
Matching(patterns, tl) == SelectSeq(patterns, LAMBDA p : re_search(p, tl, TRUE))

\* score += pts; reasons.append(label + p) for each pattern that hit
Labelled(hit, pts, label) == [i \in 1..Len(hit) |-> Finding(pts, label \o hit[i], "")]

PatternFindings(patterns, pts, label, t) == Labelled(Matching(patterns, Fold(t)), pts, label)

detect_infinite_loop(t) ==
    PatternFindings(INFINITE_LOOP_PATTERNS, 40, "infinite loop (static pattern): ", t)
    \o (IF re_search("\\bwhile\\b|\\bfor\\b", t, FALSE) /\ ~re_search("\\bbreak\\b", t, FALSE)
        THEN <<Finding(5, "loop without break keyword", "")>> ELSE <<>>)

\* the digits captured by each pattern that matches, in the order of the table
AllocGroups(tl) ==
    SelectSeq([i \in 1..Len(LARGE_ALLOC_PATTERNS) |-> AllocDigits(LARGE_ALLOC_PATTERNS[i], tl)],
              LAMBDA digits : digits # "")

AllocFindings(groups) ==
    [i \in 1..Len(groups) |->
        IF NumValue(groups[i]) >= 1000000
        THEN Finding(35, "large memory allocation: " \o groups[i], "")
        ELSE Finding(10, "memory allocation pattern", "")]

detect_large_alloc(t) == AllocFindings(AllocGroups(Fold(t)))

IOFindings(inLoop, writes) ==
    (IF inLoop THEN <<Finding(25, "repeated I/O inside a loop", "")>> ELSE <<>>)
    \o (IF writes >= 6
        THEN <<Finding(10, "frequent I/O calls (count=" \o ToString(writes) \o ")", "")>>
        ELSE <<>>)

IOScan(tl) == IOFindings(IO_IN_LOOP_SNIPPET(tl), IOCallCount(tl))

detect_io_in_loop(t) == IOScan(Fold(t))

detect_proc_thread_spawn(t) ==
    PatternFindings(PROCESS_THREAD_PATTERNS, 30, "process/thread creation: ", t)

detect_file_write_patterns(t) ==
    PatternFindings(FILE_WRITE_PATTERNS, 15, "file write/delete/move: ", t)

detect_recursion(t) ==
    IF RECURSION_SNIPPET(t) THEN <<Finding(20, "recursive call pattern", "")>> ELSE <<>>

\* the three token searches of lines 130-135, in their order
RESOURCE_TOKENS ==
    <<[pat |-> "\\b(exec|system|popen|Runtime\\.getRuntime|child_process\\.)\\b",
       token |-> "no-exec"],
      [pat |-> "\\bfork\\b|\\bspawn\\b", token |-> "no-fork"],
      [pat |-> "\\bmalloc\\b|\\bcalloc\\b|\\bnew\\s+[^\\s]+\\s*\\[", token |-> "no-large-alloc"]>>

TokensOf(hit) == [i \in 1..Len(hit) |-> hit[i].token]

ResourceTokens(tl) == TokensOf(SelectSeq(RESOURCE_TOKENS, LAMBDA r : re_search(r.pat, tl, TRUE)))

\* return max(0, min(100, total)), reasons, blocked
ResourceResult(fs, blocked) ==
    [score |-> Max(0, Min(100, Points(fs))), reasons |-> Reasons(fs), blocked |-> blocked]

\* (score, reasons, blocked) of the six sub-checks and the three token searches
run_all_resource_checks(t) ==
    ResourceResult(detect_infinite_loop(t) \o detect_large_alloc(t) \o detect_io_in_loop(t)
                   \o detect_proc_thread_spawn(t) \o detect_file_write_patterns(t)
                   \o detect_recursion(t),
                   ResourceTokens(Fold(t)))

(***************************************************************************)
(* Table detectors (c_rules.py, cpp_rules.py, java.rules.py,               *)
(* generic_rules.py).                                                      *)
(***************************************************************************)
C_FORBIDDEN ==
    <<Rule("\\bsystem\\s*\\(", 35, "system() call (command run)"),
      Rule("\\bpopen\\s*\\(", 35, "popen() (command run)"),
      Rule("\\b(socket\\s*\\(|accept\\s*\\(|recv\\s*\\()", 20, "network/socket use"),
      Rule("\\bfork\\s*\\(", 40, "fork risk"),
      Rule("\\bexec(v|ve|vp|vpe)?\\s*\\(", 45, "exec family call"),
      Rule("\\bptrace\\s*\\(", 40, "process control risk")>>

CPP_FORBIDDEN ==
    <<Rule("\\bsystem\\s*\\(", 35, "system() call"),
      Rule("\\bpopen\\s*\\(", 35, "popen() call"),
      Rule("\\bstd::thread\\b", 12, "std::thread use (thread)"),
      Rule("\\bmalloc\\s*\\(", 20, "malloc call")>>

JAVA_FORBIDDEN ==
    <<Rule("Runtime\\.getRuntime\\(\\)\\.exec\\s*\\(", 45, "Runtime.exec call"),
      Rule("new\\s+ProcessBuilder\\s*\\(", 40, "ProcessBuilder use"),
      Rule("\\bServerSocket\\b", 30, "server socket (listen)"),
      Rule("\\bThread\\s*\\(", 12, "Thread use (thread creation)")>>

GENERIC_RULES ==
    <<Rule("\\b(eval|exec)\\b", 30, "dynamic code execution"),
      Rule("\\b(fork|system\\()\\b", 25, "process control")>>

\* word in msg.lower(), for the descriptions as the source writes them: the
\* Latin-letter part of each description, lower case (the rest is Korean, so
\* that the fork rule of C_FORBIDDEN does not contain "fork")
MsgLatin(msg) ==
    CASE msg = "system() call (command run)" -> "system()"
      [] msg = "popen() (command run)" -> "popen()"
      [] msg = "exec family call" -> "exec"
      [] msg = "system() call" -> "system()"
      [] msg = "popen() call" -> "popen()"
      [] msg = "std::thread use (thread)" -> "std::thread"
      [] msg = "malloc call" -> "malloc"
      [] msg = "Runtime.exec call" -> "runtime.exec"
      [] msg = "ProcessBuilder use" -> "processbuilder"
      [] msg = "Thread use (thread creation)" -> "thread"
      [] OTHER -> ""

MsgContains(msg, word) ==
    CASE word = "exec" -> MsgLatin(msg) \in {"exec", "runtime.exec"}
      [] word = "fork" -> FALSE
      [] word = "system" -> MsgLatin(msg) = "system()"
      [] word = "processbuilder" -> MsgLatin(msg) = "processbuilder"

\* the table pass: weight and description per matching rule, and the token
\* when the description holds one of the signal words
SignalFindings(hit, signals, token) ==
    [i \in 1..Len(hit) |->
        Finding(hit[i].pts, hit[i].msg,
                IF \E w \in signals : MsgContains(hit[i].msg, w) THEN token ELSE "")]

TableScan(table, signals, token, u, ic) ==
    SignalFindings(SelectSeq(table, LAMBDA r : re_search(r.pat, u, ic)), signals, token)

TableFindings(table, signals, token, t, ic) ==
    TableScan(table, signals, token, Subject(t, ic), ic)

\* a detector that returns its table pass alone
WithResourceChecks_tableonly(fs, r) ==
    make_result(Points(fs), Reasons(fs), SortedSet(Tokens(fs)), EmptyStyle, FALSE)

\* score += r_score; reasons.extend(r_reasons); blocked.extend(r_blocked);
\* return make_result(score, reasons, list(sorted(set(blocked))))
WithResourceChecks(fs, r) ==
    make_result(Points(fs) + r.score, Reasons(fs) \o r.reasons,
                SortedSet(Tokens(fs) \o r.blocked), EmptyStyle, FALSE)

\* the shape analyze_c, analyze_cpp and analyze_java share
TableDetector(table, signals, token, t, ic) ==
    WithResourceChecks(TableFindings(table, signals, token, t, ic), run_all_resource_checks(t))

analyze_c(code) ==
    TableDetector(C_FORBIDDEN, {"exec", "fork"}, "no-system-call", Text(code), TRUE)

analyze_cpp(code) ==
    TableDetector(CPP_FORBIDDEN, {"system"}, "no-system-call", Text(code), TRUE)

analyze_java(code) ==
    TableDetector(JAVA_FORBIDDEN, {"exec", "processbuilder"}, "no-exec", Text(code), FALSE)

\* return make_result(score, reasons)
GenericResult(fs) == make_result(Points(fs), Reasons(fs), <<>>, EmptyStyle, FALSE)

analyze_generic(code) == GenericResult(TableFindings(GENERIC_RULES, {}, "", Text(code), FALSE))

(***************************************************************************)
(* Language detection (detectors/lang_detect.py).                          *)
(***************************************************************************)
\* w ends with s / starts with s, for the words of the vocabulary
HasSuffix(w, s) ==
    \/ w = s
    \/ <<w, s>> \in {<<"undef", "def">>, <<"print", "int">>, <<"renew", "new">>}
HasPrefix(w, s) ==
    \/ w = s
    \/ <<w, s>> \in {<<"println", "print">>, <<"include", "in">>}

Blank == {SP, IND}       \* lexemes that start with a blank character

\* needle in sample, for the needles of LANG_HINTS
NeedleIn(needle, t) ==
    CASE needle \in {"def ", "import ", "lambda ", "function ", "export ", "val ", "var "} ->
            \E i \in 1..Len(t) :
                /\ At(t, i + 1) \in Blank
                /\ HasSuffix(t[i], CASE needle = "def " -> "def"
                                     [] needle = "import " -> "import"
                                     [] needle = "lambda " -> "lambda"
                                     [] needle = "function " -> "function"
                                     [] needle = "export " -> "export"
                                     [] needle = "val " -> "val"
                                     [] needle = "var " -> "var")
      [] needle \in {"async def", "public class", "package main"} ->
            \E i \in 1..Len(t) :
                /\ At(t, i + 1) = SP
                /\ HasSuffix(t[i], CASE needle = "async def" -> "async"
                                     [] needle = "public class" -> "public"
                                     [] needle = "package main" -> "package")
                /\ HasPrefix(At(t, i + 2), CASE needle = "async def" -> "def"
                                             [] needle = "public class" -> "class"
                                             [] needle = "package main" -> "main")
      [] needle \in {"int main(", "func main(", "fn main(", "fun main("} ->
            \E i \in 1..Len(t) :
                /\ At(t, i + 1) = SP /\ At(t, i + 2) = "main" /\ At(t, i + 3) = "("
                /\ HasSuffix(t[i], CASE needle = "int main(" -> "int"
                                     [] needle = "func main(" -> "func"
                                     [] needle = "fn main(" -> "fn"
                                     [] needle = "fun main(" -> "fun")
      [] needle = "print(" ->
            \E i \in 1..Len(t) : HasSuffix(t[i], "print") /\ At(t, i + 1) = "("
      [] needle = "=>" ->
            \E i \in 1..Len(t) : t[i] = "=" /\ At(t, i + 1) = ">"
      [] needle = "console.log" ->
            \E i \in 1..Len(t) :
                HasSuffix(t[i], "console") /\ At(t, i + 1) = "." /\ HasPrefix(At(t, i + 2), "log")
      [] needle = "System.out.println" ->
            \E i \in 1..Len(t) :
                /\ HasSuffix(t[i], "System") /\ At(t, i + 1) = "." /\ At(t, i + 2) = "out"
                /\ At(t, i + 3) = "." /\ HasPrefix(At(t, i + 4), "println")
      [] needle = "#include" ->
            \E i \in 1..Len(t) : t[i] = "#" /\ HasPrefix(At(t, i + 1), "include")
      [] needle = "std::" ->
            \E i \in 1..Len(t) :
                HasSuffix(t[i], "std") /\ At(t, i + 1) = ":" /\ At(t, i + 2) = ":"
      [] needle = "println!(" ->
            \E i \in 1..Len(t) :
                HasSuffix(t[i], "println") /\ At(t, i + 1) = "!" /\ At(t, i + 2) = "("

LANG_HINTS ==
    <<[lang |-> "python", needles |-> {"def ", "import ", "lambda ", "async def", "print("}],
      [lang |-> "javascript",
       needles |-> {"function ", "=>", "console.log", "export ", "import "}],
      [lang |-> "java", needles |-> {"public class", "System.out.println"}],
      [lang |-> "cpp", needles |-> {"#include", "std::", "int main("}],
      [lang |-> "go", needles |-> {"package main", "func main("}],
      [lang |-> "rust", needles |-> {"fn main(", "println!("}],
      [lang |-> "kotlin", needles |-> {"fun main(", "val ", "var "}]>>

\* the languages with a needle in the sample, in the order of LANG_HINTS
Hinted(sample) == SelectSeq(LANG_HINTS, LAMBDA h : \E n \in h.needles : NeedleIn(n, sample))

FirstLanguage(hit) == IF hit # <<>> THEN hit[1].lang ELSE "python"

detect_language(code, hint) ==
    IF hint # "" /\ hint # "auto" THEN Lower(hint)
    ELSE FirstLanguage(Hinted(Text(code)))

(***************************************************************************)
(* The sources the model analyses: up to MaxStmts of these statements and  *)
(* foreign snippets, one per line.                                         *)
(***************************************************************************)
Str(w) == Constant("str", w)
CallStmt(func, args) == Expr(Call(func, args))
True == Constant("bool", "True")
Semi(lexemes) == Raw(<<"{", SP>> \o lexemes \o <<";", SP, "}">>)

PyStatements ==
    {Import(<< <<"os">> >>),
     Import(<< <<"subprocess">> >>),
     Import(<< <<"socket">>, <<"ctypes">> >>),
     CallStmt(Attribute(Name("os"), "system"), <<Str("ls")>>),
     CallStmt(Attribute(Name("subprocess"), "Popen"), <<Name("cmd")>>),
     CallStmt(Attribute(Name("os"), "execv"), <<Name("cmd"), Name("cmd")>>),
     CallStmt(Name("eval"), <<Name("cmd")>>),
     While(True, <<Pass>>, <<>>),
     While(True, <<Break>>, <<>>),
     While(True, <<Pass, Break>>, <<>>),
     While(True, <<While(True, <<Pass>>, <<>>), Break>>, <<>>)}

ForeignSnippets ==
    {Raw(<<"eval", "(">>),
     Semi(<<"system", "(", "\"", "ls", "\"", ")">>),
     Semi(<<"execv", "(", "p", ",", SP, "a", ")", ";", SP, "fork", "(", ")">>),
     Semi(<<"Runtime", ".", "getRuntime", "(", ")", ".", "exec", "(", "\"", "ls", "\"", ")">>),
     Semi(<<"new", SP, "ProcessBuilder", "(", "\"", "ls", "\"", ")">>)}

Statements == PyStatements \cup ForeignSnippets

Codes == UNION {[1..n -> Statements] : n \in 0..MaxStmts}
Hints == {"auto", "Python", "c", "cpp", "java"}
Scores == (0 - ScoreSlack)..(100 + ScoreSlack)
Languages == {"python", "c", "javascript"}

(***************************************************************************)
(* The service.                                                            *)
(***************************************************************************)
NoResult ==
    [score |-> 0, reasons |-> <<>>, blocked |-> <<>>, style |-> EmptyStyle,
     hard_block |-> FALSE]
NoResponse == [status |-> 0]

\* Python's None
None == "None"

\* no cache file has been written
NoFiles == [code \in {} |-> None]

Init ==
    /\ pc = "idle" /\ fn = "" /\ inCode = <<>> /\ inHint = "auto" /\ lang = ""
    /\ result = NoResult /\ response = NoResponse /\ arg = 0 /\ ret = <<>>
    /\ _client = None /\ cache = NoFiles /\ attempt = 0 /\ local_fallback_callable = None

\* code.strip() is empty
IsBlankText(t) == \A i \in 1..Len(t) : IsSpace(t[i])

\* a caller holds a source text and is about to pass it to the service
Submit ==
    /\ pc = "idle"
    /\ \E c \in Codes : inCode' = c
    /\ pc' = "pending"
    /\ UNCHANGED <<fn, inHint, lang, result, response, arg, ret, tagging>>

\* return AnalyzeResponse(...): lines 51-72, the verdict fields
AnalyzeResponse(l, r, verdict) ==
    [status |-> 200,
     safe |-> verdict[2],
     risk_score |-> r.score,
     decision |-> verdict[1],
     language |-> l,
     blocked_rules |-> r.blocked,
     reasons |-> r.reasons,
     suggested_limits |-> suggest_limits(r.score, l)]

Respond(l, r) ==
    /\ lang' = l
    /\ result' = r
    /\ response' = AnalyzeResponse(l, r, decision_logic(r.score))

\* a dispatch to the table detector of the resolved language
Dispatch_bylanguage(l, c) ==
    Respond(l, CASE l = "python" -> analyze_python(c)
                 [] l = "c" -> analyze_c(c)
                 [] l = "cpp" -> analyze_cpp(c)
                 [] l = "java" -> analyze_java(c)
                 [] OTHER -> analyze_generic(c))

\* line 25: the detector for the resolved language
Dispatch(l, c) == Respond(l, IF l = "python" THEN analyze_python(c) ELSE analyze_generic(c))

\* POST /v1/analyze (main.py): the verdict part of the handler
Analyze(c, h) ==
    /\ pc' = "returned" /\ fn' = "analyze" /\ inHint' = h
    /\ UNCHANGED <<inCode, arg, ret, tagging>>
    /\ IF IsBlankText(Text(c))
       THEN /\ response' = [status |-> 400]
            /\ UNCHANGED <<lang, result>>
       ELSE Dispatch(detect_language(c, h), c)

CallAnalyze ==
    /\ pc = "pending"
    /\ \E h \in Hints : Analyze(inCode, h)

\* a detector called on a text
Detect(name, c, r) ==
    /\ pc = "pending" /\ c # <<>>
    /\ pc' = "returned" /\ fn' = name /\ result' = r
    /\ UNCHANGED <<inCode, inHint, lang, response, arg, ret, tagging>>

CallAnalyzePython == Detect("analyze_python", inCode, analyze_python(inCode))
CallAnalyzeC == Detect("analyze_c", inCode, analyze_c(inCode))
CallAnalyzeCpp == Detect("analyze_cpp", inCode, analyze_cpp(inCode))
CallAnalyzeJava == Detect("analyze_java", inCode, analyze_java(inCode))
CallAnalyzeGeneric == Detect("analyze_generic", inCode, analyze_generic(inCode))

CallRunAllResourceChecks ==
    /\ pc = "pending" /\ inCode # <<>>
    /\ pc' = "returned" /\ fn' = "run_all_resource_checks"
    /\ ret' = run_all_resource_checks(Text(inCode))
    /\ UNCHANGED <<inCode, inHint, lang, result, response, arg, tagging>>

CallDecisionLogic ==
    /\ pc = "idle"
    /\ \E s \in Scores :
        /\ pc' = "returned" /\ fn' = "decision_logic" /\ arg' = s
        /\ ret' = decision_logic(s)
        /\ UNCHANGED <<inCode, inHint, lang, result, response, tagging>>

CallSuggestLimits ==
    /\ pc = "idle"
    /\ \E s \in Scores : \E l \in Languages :
        /\ pc' = "returned" /\ fn' = "suggest_limits" /\ arg' = s /\ lang' = l
        /\ ret' = suggest_limits(s, l)
        /\ UNCHANGED <<inCode, inHint, result, response, tagging>>

\* the caller has its answer; the service keeps nothing but its model client
\* and the cache files
Done ==
    /\ pc = "returned"
    /\ pc' = "idle" /\ fn' = "" /\ inCode' = <<>> /\ inHint' = "auto" /\ lang' = ""
    /\ result' = NoResult /\ response' = NoResponse /\ arg' = 0 /\ ret' = <<>>
    /\ attempt' = 0 /\ local_fallback_callable' = None
    /\ UNCHANGED <<_client, cache>>

Next ==
    \/ Submit
    \/ CallAnalyze
    \/ CallAnalyzePython
    \/ CallAnalyzeC
    \/ CallAnalyzeCpp
    \/ CallAnalyzeJava
    \/ CallAnalyzeGeneric
    \/ CallRunAllResourceChecks
    \/ CallDecisionLogic
    \/ CallSuggestLimits
    \/ Done

Spec == Init /\ [][Next]_vars

(***************************************************************************)
(* Properties.                                                             *)
(***************************************************************************)
Detectors ==
    {"analyze_python", "analyze_c", "analyze_cpp", "analyze_java", "analyze_generic"}

Returned(name) == pc = "returned" /\ fn = name

Has(seq, x) == \E i \in 1..Len(seq) : seq[i] = x

\* the score analyze_python returns when no infinite-loop finding is made
ScoreWithoutLoopPenalty(code) ==
    Min(100, Points(PyLexicalFindings(Text(code)) \o WalkFindings(Walk(Parse(code)))))

\* C1: whatever the raw sum of weights, penalties and resource score, the
\* score of the result of each of the five detectors is an integer from 0 to 100.
C1_ScoreClamped ==
    (pc = "returned" /\ fn \in Detectors) => result.score \in 0..100

\* a Python text whose findings sum to more than 100 comes back with score 100
C1_Witness ==
    /\ Returned("analyze_python")
    /\ Points(PyFindings(inCode)) > 100
    /\ result.score = 100

WhileTruePass == <<While(True, <<Pass>>, <<>>)>>

\* C2: for the Python source that is only "while True:" with the body "pass",
\* the result has hard_block true and infinite-loop in blocked, and
\* decision_logic on its score gives block.
C2_WhileTruePassHardBlocks ==
    (Returned("analyze_python") /\ inCode = WhileTruePass) =>
        /\ result.hard_block = TRUE
        /\ Has(result.blocked, "infinite-loop")
        /\ decision_logic(result.score)[1] = "block"

\* a source that is one "while True:" loop (any constant test that is true)
\* with a break directly in its body
IsBreakLoop(code) ==
    /\ Len(code) = 1
    /\ code[1].type = "While"
    /\ _is_constant_true_test(code[1].test)
    /\ \E i \in 1..Len(code[1].body) : code[1].body[i].type = "Break"

\* the loops of the body that are themselves infinite-loop findings
InnerLoopReasons(code) == _detect_infinite_loops_in_ast(Module(code[1].body \o code[1].orelse))

NotFlagged(code, r) ==
    /\ ~Has(r.blocked, "infinite-loop")
    /\ r.hard_block = FALSE
    /\ r.score = ScoreWithoutLoopPenalty(code)

\* C3 as stated: every source that is a "while True:" loop with a break
\* directly in its body comes back without the infinite-loop token, with
\* hard_block false and without the +90 of the tree pass.
C3_BreakLoopNotFlagged ==
    (Returned("analyze_python") /\ IsBreakLoop(inCode)) => NotFlagged(inCode, result)

\* C3, amended: the same, for the loops whose body holds no loop that is
\* itself an infinite-loop finding.
C3_BreakLoopNotFlaggedUnlessInner ==
    (Returned("analyze_python") /\ IsBreakLoop(inCode) /\ InnerLoopReasons(inCode) = <<>>)
        => NotFlagged(inCode, result)

\* "while True:" with pass and break in its body has been analysed
C3_Witness ==
    /\ Returned("analyze_python")
    /\ inCode = <<While(True, <<Pass, Break>>, <<>>)>>
    /\ result.score = 20
    /\ result.blocked = <<>>

ProcessModules == {"subprocess", "os"}
ExecFamilyCalls == {<<"subprocess", "Popen">>, <<"os", "system">>, <<"os", "execv">>}

\* the tokens that name process execution, read as widely as the vocabulary allows
ExecFamilyTokens == {"no-exec", "no-fork", "no-system-call", "no-subprocess", "no-os"}

ImportsModule(code, m) ==
    \E i \in 1..Len(code) :
        code[i].type = "Import" /\ \E k \in 1..Len(code[i].names) : Head(code[i].names[k]) = m

CallsExecOf(code, m) ==
    \E i \in 1..Len(code) :
        /\ code[i].type = "Expr" /\ code[i].value.type = "Call"
        /\ code[i].value.func.type = "Attribute"
        /\ code[i].value.func.value = Name(m)
        /\ <<m, code[i].value.func.attr>> \in ExecFamilyCalls

\* a Python source that imports a process module and calls its exec-family function
IsExecSnippet(code) ==
    ~ParseFails(code) /\ \E m \in ProcessModules : ImportsModule(code, m) /\ CallsExecOf(code, m)

\* C4: every Python source that imports a process-execution module and calls
\* an exec-family function of it comes back with an exec-family token in
\* blocked and a score of at least 40, so that the verdict is not allow.
C4_ExecSnippetNotAllowed ==
    (Returned("analyze_python") /\ IsExecSnippet(inCode)) =>
        /\ \E tok \in ExecFamilyTokens : Has(result.blocked, tok)
        /\ result.score >= 40
        /\ decision_logic(result.score)[1] \in {"block", "sandbox"}

\* C5: on a source ast.parse rejects, analyze_python returns a result that
\* keeps the lexical findings, adds 5 to the raw score and one parse-failure
\* reason, and holds nothing of the tree pass: no token, no other reason.
C5_ParseFailureKeepsLexical ==
    (Returned("analyze_python") /\ ParseFails(inCode)) =>
        /\ DOMAIN result = {"score", "reasons", "blocked", "style", "hard_block"}
        /\ result.score = Min(100, Points(PyLexicalFindings(Text(inCode))) + 5)
        /\ result.reasons = Reasons(PyLexicalFindings(Text(inCode))) \o <<"AST parse failure">>
        /\ result.blocked = <<>>

\* a source with a risky import, a lexical hit and a line that does not parse
C5_Witness ==
    /\ Returned("analyze_python")
    /\ ParseFails(inCode)
    /\ ImportsModule(inCode, "os")
    /\ PyLexicalFindings(Text(inCode)) # <<>>
    /\ result.score = Points(PyLexicalFindings(Text(inCode))) + 5

\* the verdict the thresholds give a score
Verdict(score) ==
    CASE score >= 70 -> "block"
      [] score >= 40 /\ score < 70 -> "sandbox"
      [] score < 40 -> "allow"

\* C6: decision_logic gives (block, not safe) from 70 up, (sandbox, not safe)
\* from 40 to 69 and (allow, safe) below 40, safe exactly with allow; and the
\* verdict of the endpoint is the one of the score, whatever the language
\* and the hard_block flag of the result.
C6_VerdictByScoreAlone ==
    /\ Returned("decision_logic") =>
            /\ ret[1] = Verdict(arg)
            /\ ret[2] = (ret[1] = "allow")
    /\ (Returned("analyze") /\ response.status = 200) =>
            /\ response.decision = Verdict(response.risk_score)
            /\ response.safe = (response.decision = "allow")

\* the endpoint has answered sandbox for a text resolved to another language
\* than Python
C6_Witness ==
    /\ Returned("analyze")
    /\ response.status = 200
    /\ response.language # "python"
    /\ response.risk_score \in 40..69
    /\ response.decision = "sandbox"

Limits(cpu, mem, wall, out) ==
    [cpu_time_sec |-> cpu, memory_mb |-> mem, wall_time_sec |-> wall, stdout_kb |-> out]

\* C7: suggest_limits gives (10, 512, 20, 256) for score 0 and (1, 64, 2, 16)
\* for score 100 in Python, and (2, 128, 5, 64) for every other language at
\* every score.
C7_LimitEndpoints ==
    Returned("suggest_limits") =>
        /\ (lang = "python" /\ arg = 0) => ret = Limits(10, 512, 20, 256)
        /\ (lang = "python" /\ arg = 100) => ret = Limits(1, 64, 2, 16)
        /\ lang # "python" => ret = Limits(2, 128, 5, 64)

\* suggest_limits(100, "python") has returned the strictest limits
C7_Witness ==
    /\ Returned("suggest_limits")
    /\ lang = "python" /\ arg = 100
    /\ ret = Limits(1, 64, 2, 16)

\* place of a token in the order of code points
Rank(tok) == CHOOSE i \in 1..Len(TokenOrder) : TokenOrder[i] = tok

\* C8: in the result of every detector, blocked is in ascending order
\* without a token twice.
C8_BlockedSortedNoDuplicates ==
    (pc = "returned" /\ fn \in Detectors) =>
        /\ \A i \in 1..Len(result.blocked) : result.blocked[i] \in Range(TokenOrder)
        /\ \A i, j \in 1..Len(result.blocked) :
                i < j => Rank(result.blocked[i]) < Rank(result.blocked[j])

\* four tokens appended out of order and twice came back as two, in order
C8_Witness ==
    /\ Returned("analyze_python")
    /\ Tokens(PyFindings(inCode)) = <<"no-socket", "no-ctypes", "no-socket", "no-ctypes">>
    /\ result.blocked = <<"no-ctypes", "no-socket">>

\* the detector of a resolved language, with Generic as the default arm
DetectorOf(l, c) ==
    CASE l = "python" -> analyze_python(c)
      [] l = "c" -> analyze_c(c)
      [] l = "cpp" -> analyze_cpp(c)
      [] l = "java" -> analyze_java(c)
      [] OTHER -> analyze_generic(c)

\* C9: the endpoint gives the text to the detector of the resolved language
\* when it is python, c, cpp or java, and to the Generic detector otherwise.
C9_DispatchByLanguage ==
    (Returned("analyze") /\ response.status = 200) => result = DetectorOf(lang, inCode)

\* C10: the Python detector adds the clamped resource score of the same text
\* to its score, appends the resource reasons and joins the resource tokens
\* to blocked, as the C, C++ and Java detectors do.
C10_PythonFoldsResourceChecks ==
    Returned("analyze_python") =>
        result = [WithResourceChecks(PyFindings(inCode),
                                     run_all_resource_checks(Text(inCode)))
                  EXCEPT !.style = PyStyle(inCode)]

(***************************************************************************)
(* Repeated calls.  A caller runs one detector on a text, keeps the        *)
(* result, and runs the same detector on the same text again, with or      *)
(* without another analysis in between.  Nothing is reset between the      *)
(* calls: what a call left behind is still there when the next one runs.   *)
(***************************************************************************)
RepeatStatements ==
    {Import(<< <<"socket">>, <<"ctypes">> >>),
     CallStmt(Name("eval"), <<Name("cmd")>>),
     While(True, <<Pass>>, <<>>),
     Semi(<<"system", "(", "\"", "ls", "\"", ")">>),
     Semi(<<"Runtime", ".", "getRuntime", "(", ")", ".", "exec", "(", "\"", "ls", "\"", ")">>)}

RepeatCodes == UNION {[1..n -> RepeatStatements] : n \in 1..MaxStmts}

\* the texts of the analyses that run between the two calls
OtherTexts == {<<Import(<< <<"os">> >>)>>, <<Raw(<<"eval", "(">>)>>}

CallDetector(name, c) ==
    CASE name = "analyze_python" -> analyze_python(c)
      [] name = "analyze_c" -> analyze_c(c)
      [] name = "analyze_cpp" -> analyze_cpp(c)
      [] name = "analyze_java" -> analyze_java(c)
      [] name = "analyze_generic" -> analyze_generic(c)

RepeatSubmit ==
    /\ pc = "idle"
    /\ \E c \in RepeatCodes : inCode' = c
    /\ pc' = "pending"
    /\ UNCHANGED <<fn, inHint, lang, result, response, arg, ret, tagging>>

\* the first call; the caller keeps its result in ret
FirstCall ==
    /\ pc = "pending"
    /\ \E name \in {"analyze_python", "analyze_c", "analyze_cpp", "analyze_java",
                     "analyze_generic"} :
            /\ fn' = name
            /\ result' = CallDetector(name, inCode)
    /\ ret' = result'
    /\ pc' = "once"
    /\ UNCHANGED <<inCode, inHint, lang, response, arg, tagging>>

\* another analysis, of another text, by the same detector
OtherCall ==
    /\ pc = "once" /\ arg = 0
    /\ \E other \in OtherTexts : result' = CallDetector(fn, other)
    /\ arg' = 1
    /\ UNCHANGED <<pc, fn, inCode, inHint, lang, response, ret, tagging>>

\* the second call of the same detector on the same text
SecondCall ==
    /\ pc = "once"
    /\ result' = CallDetector(fn, inCode)
    /\ pc' = "twice"
    /\ UNCHANGED <<fn, inCode, inHint, lang, response, arg, ret, tagging>>

RepeatDone ==
    /\ pc = "twice"
    /\ pc' = "idle" /\ fn' = "" /\ inCode' = <<>> /\ inHint' = "auto" /\ lang' = ""
    /\ result' = NoResult /\ response' = NoResponse /\ arg' = 0 /\ ret' = <<>>
    /\ attempt' = 0 /\ local_fallback_callable' = None
    /\ UNCHANGED <<_client, cache>>

RepeatNext ==
    \/ RepeatSubmit
    \/ FirstCall
    \/ OtherCall
    \/ SecondCall
    \/ RepeatDone

SpecRepeat == Init /\ [][RepeatNext]_vars

Num(n) == Constant("int", n)

\* tests/sample_safe.py: the shape of the prime sieve and of its caller
primes_upto ==
    FunctionDef("primes_upto",
        <<If(Name("n"), <<Return>>, <<>>),
          For(Name("i"), Call(Name("range"), <<Num("2"), Name("n")>>),
              <<If(Name("sieve"),
                   <<For(Name("j"), Call(Name("range"), <<Name("i"), Name("n")>>),
                         <<CallStmt(Attribute(Name("sieve"), "discard"), <<Name("j")>>)>>,
                         <<>>)>>,
                   <<>>)>>,
              <<>>),
          Return>>)

SafeStatements ==
    {Import(<< <<"math">> >>),
     ImportFrom(<<"typing">>, << <<"List">> >>),
     primes_upto,
     CallStmt(Name("print"), <<Str("primes"), Call(Name("primes_upto"), <<Num("30")>>)>>)}

\* the two import forms, with the table module before and after import
ImportStatements ==
    {Import(<< <<"os", "path">> >>),
     ImportFrom(<<"os">>, << <<"path">> >>),
     ImportFrom(<<"mylib">>, << <<"socket">> >>)}

\* while loops without a way out, under conditions of several kinds
ConditionStatements ==
    {While(Num("1"), <<Pass>>, <<>>),
     While(Num("2"), <<Pass>>, <<>>),
     While(Num("0"), <<Pass>>, <<>>),
     While(Str("x"), <<Pass>>, <<>>),
     While(Name("x"), <<Pass>>, <<>>)}

PythonStatements == SafeStatements \cup ImportStatements \cup ConditionStatements

PythonCodes == UNION {[1..n -> PythonStatements] : n \in 0..MaxStmts}

SubmitPython ==
    /\ pc = "idle"
    /\ \E c \in PythonCodes : inCode' = c
    /\ pc' = "pending"
    /\ UNCHANGED <<fn, inHint, lang, result, response, arg, ret, tagging>>

\* the request names its language
CallAnalyzeAsPython ==
    /\ pc = "pending"
    /\ Analyze(inCode, "Python")

PythonNext ==
    \/ SubmitPython
    \/ CallAnalyzeAsPython
    \/ CallAnalyzePython
    \/ Done

SpecPython == Init /\ [][PythonNext]_vars

\* the import statements of a source, wherever they stand
ImportNodes(code) ==
    SelectSeq(Walk(Parse(code)), LAMBDA n : n.type \in {"Import", "ImportFrom"})

\* the modules an import statement names: the dotted names after import,
\* the package after from, and the names taken from it (they may be its
\* submodules), each by its top-level part
NamedModules(node) ==
    {Head(node.names[i]) : i \in 1..Len(node.names)}
    \cup (IF node.type = "ImportFrom" /\ node.module # <<>> THEN {Head(node.module)} ELSE {})

ImportsNoTableModule(code) ==
    \A i \in 1..Len(ImportNodes(code)) :
        NamedModules(ImportNodes(code)[i]) \cap DOMAIN PY_FORBIDDEN_IMPORTS = {}

CallsNoDynamicExecution(code) ==
    \A i \in 1..Len(Walk(Parse(code))) :
        Walk(Parse(code))[i].type = "Call"
            => CalledName(Walk(Parse(code))[i].func) \notin {"eval", "exec"}

Harmless(code) ==
    /\ ~ParseFails(code)
    /\ PyLexicalFindings(Text(code)) = <<>>
    /\ ImportsNoTableModule(code)
    /\ CallsNoDynamicExecution(code)
    /\ _detect_infinite_loops_in_ast(Parse(code)) = <<>>

BlockedVocabulary ==
    {"no-exec", "no-fork", "no-system-call", "no-large-alloc", "infinite-loop"}
    \cup {"no-" \o m : m \in DOMAIN PY_FORBIDDEN_IMPORTS}

\* C13: every token in the blocked list of a detector's result, of the
\* resource checks' result and of the service's answer is no-exec, no-fork,
\* no-system-call, no-large-alloc, infinite-loop, or no-<module> for a
\* module of the Python risk table.
C13_BlockedVocabularyClosed ==
    /\ (pc = "returned" /\ fn \in Detectors)
            => Range(result.blocked) \subseteq BlockedVocabulary
    /\ (pc = "returned" /\ fn = "run_all_resource_checks")
            => Range(ret.blocked) \subseteq BlockedVocabulary
    /\ (pc = "returned" /\ fn = "analyze" /\ response.status = 200)
            => Range(response.blocked_rules) \subseteq BlockedVocabulary

\* analyze_python returned a fixed token and a module token
C13_Witness ==
    /\ Returned("analyze_python")
    /\ inCode = <<Import(<< <<"os">> >>), While(True, <<Pass>>, <<>>)>>
    /\ result.blocked = <<"infinite-loop", "no-os">>

\* what an import statement adds when it is charged by its top-level module:
\* each dotted name after import, the package after from
ImportedModules(node) ==
    IF node.type = "Import" THEN [i \in 1..Len(node.names) |-> Head(node.names[i])]
    ELSE IF node.module = <<>> THEN <<>>
    ELSE <<Head(node.module)>>

ChargedByModule(node) ==
    LET risky == SelectSeq(ImportedModules(node), LAMBDA m : m \in DOMAIN PY_FORBIDDEN_IMPORTS)
    IN  [i \in 1..Len(risky) |->
            Finding(PY_FORBIDDEN_IMPORTS[risky[i]], "risky module: " \o risky[i],
                    "no-" \o risky[i])]

FindingsByModule(nodes) ==
    Flatten([i \in 1..Len(nodes) |->
        IF nodes[i].type \in {"Import", "ImportFrom"} THEN ChargedByModule(nodes[i])
        ELSE NodeFindings(nodes[i])])

\* C14: for a source that parses, analyze_python returns what it would
\* return with every import statement, import m[.sub] and from m[.sub]
\* import x alike, charged by its top-level module m: weight, reason and
\* token no-m when m is in the table, nothing otherwise.
C14_ImportsChargedByModule ==
    (Returned("analyze_python") /\ ~ParseFails(inCode)) =>
        result = PyResult(PyLexicalFindings(Text(inCode))
                          \o FindingsByModule(Walk(Parse(inCode)))
                          \o InfiniteLoopFindings(_detect_infinite_loops_in_ast(Parse(inCode))),
                          PyStyle(inCode))

\* the conditions the classification is stated for
LiteralTrueOrOne(test) == test \in {True, Num("1"), Name("True")}

WhileNodes(code) == SelectSeq(Walk(Parse(code)), LAMBDA n : n.type = "While")

\* C15: analyze_python reports a constant-true while loop only for a source
\* with a while loop whose condition is the literal True, the literal 1 or
\* the name True; a loop under any other constant, 2 or a non-empty string,
\* is not reported.
C15_OnlyTrueAndOneClassified ==
    (/\ Returned("analyze_python")
     /\ Has(result.reasons, "infinite loop: constant True while without exit"))
        => \E i \in 1..Len(WhileNodes(inCode)) :
                LiteralTrueOrOne(WhileNodes(inCode)[i].test)

(***************************************************************************)
(* The escape scan on its own: _body_has_exit_statements called on a loop  *)
(* body, as _detect_infinite_loops_in_ast calls it on node.body.           *)
(***************************************************************************)
X == Name("x")

BodyStatements ==
    {Pass,
     Break,
     CallStmt(Name("print"), <<Call(Name("exit"), <<>>)>>),
     If(X, <<Break>>, <<>>),
     If(X, <<Pass>>, <<Return>>),
     If(X, <<FunctionDef("g", <<Return>>)>>, <<>>),
     For(Name("i"), X, <<Pass>>, <<Raise>>),
     While(X, <<If(X, <<CallStmt(Attribute(Name("proc"), "terminate"), <<>>)>>, <<>>)>>, <<>>),
     With(<<WithItem(Name("lock"))>>, <<CallStmt(Name("quit"), <<>>)>>),
     Try(<<Pass>>, <<ExceptHandler(<<Raise>>)>>, <<>>, <<>>),
     Try(<<Pass>>, <<ExceptHandler(<<Pass>>)>>, <<>>,
         <<CallStmt(Attribute(Name("sys"), "exit"), <<>>)>>),
     Try(<<Pass>>, <<ExceptHandler(<<Pass>>)>>, <<CallStmt(Name("exit"), <<>>)>>, <<>>),
     FunctionDef("f", <<Return>>),
     ClassDef("K", <<FunctionDef("m", <<Raise>>)>>)}

Bodies == UNION {[1..n -> BodyStatements] : n \in 1..MaxStmts}

SubmitBody ==
    /\ pc = "idle"
    /\ \E b \in Bodies : inCode' = b
    /\ pc' = "pending"
    /\ UNCHANGED <<fn, inHint, lang, result, response, arg, ret, tagging>>

CallBodyHasExitStatements ==
    /\ pc = "pending"
    /\ pc' = "returned" /\ fn' = "_body_has_exit_statements"
    /\ ret' = _body_has_exit_statements(inCode)
    /\ UNCHANGED <<inCode, inHint, lang, result, response, arg, tagging>>

\* the loop detection on while True: <body>
CallDetectInfiniteLoops ==
    /\ pc = "pending"
    /\ pc' = "returned" /\ fn' = "_detect_infinite_loops_in_ast"
    /\ ret' = _detect_infinite_loops_in_ast(Module(<<While(True, inCode, <<>>)>>))
    /\ UNCHANGED <<inCode, inHint, lang, result, response, arg, tagging>>

EscapeNext ==
    \/ SubmitBody
    \/ CallBodyHasExitStatements
    \/ CallDetectInfiniteLoops
    \/ Done

SpecEscape == Init /\ [][EscapeNext]_vars

\* a statement that leaves the loop by itself
LeavesLoop(s) ==
    \/ s.type \in {"Break", "Return", "Raise"}
    \/ /\ s.type = "Expr" /\ s.value.type = "Call"
       /\ \/ s.value.func.type = "Name" /\ s.value.func.id \in {"exit", "quit"}
          \/ /\ s.value.func.type = "Attribute"
             /\ s.value.func.attr \in {"exit", "abort", "terminate"}

\* the statement lists directly under an if, for, while, with or try
\* statement: body, else-branch, handlers, finally-block
Blocks(s) ==
    CASE s.type \in {"If", "For", "While"} -> {s.body, s.orelse}
      [] s.type = "With" -> {s.body}
      [] s.type = "Try" ->
            {s.body, s.orelse, s.finalbody} \cup {s.handlers[i].body : i \in 1..Len(s.handlers)}
      [] OTHER -> {}

\* the statements of a body at any depth reached through such blocks; the
\* inside of a function or class definition is not reached
RECURSIVE Reached(_)
Reached(stmts) ==
    Range(stmts) \cup UNION {Reached(b) : b \in UNION {Blocks(stmts[i]) : i \in 1..Len(stmts)}}

\* C16: the escape scan answers true exactly when a break, return or raise,
\* or an expression statement calling exit, quit, or an attribute exit,
\* abort or terminate, stands in the body at any depth reached through the
\* bodies, else-branches, handlers and finally-blocks of if, for, while,
\* with and try; statements inside a nested definition do not count.
C16_EscapeScanExact ==
    Returned("_body_has_exit_statements") =>
        (ret <=> \E s \in Reached(inCode) : LeavesLoop(s))

\* a return inside a nested definition was passed over and the exit call
\* in a finally-block was found
C16_Witness ==
    /\ Returned("_body_has_exit_statements")
    /\ inCode = <<FunctionDef("f", <<Return>>),
                  Try(<<Pass>>, <<ExceptHandler(<<Pass>>)>>, <<>>,
                      <<CallStmt(Attribute(Name("sys"), "exit"), <<>>)>>)>>
    /\ ret = TRUE
    /\ ~_body_has_exit_statements(<<FunctionDef("f", <<Return>>)>>)

\* the patterns of the process/thread sub-check for the exec family, system,
\* child_process, Runtime.exec, ProcessBuilder and subprocess
ExecIdioms == {PROCESS_THREAD_PATTERNS[i] : i \in {2, 3, 6, 7, 8, 9}}

\* the sub-check's finding for a pattern is among the returned reasons
SpawnReported(p) == Has(ret.reasons, "process/thread creation: " \o p)

\* C17: run_all_resource_checks returns no-exec whenever the process/thread
\* sub-check reports an exec-family call (execv, execve, execvp among them),
\* system, child_process, Runtime.exec, ProcessBuilder or subprocess, and
\* no-fork whenever the word fork or spawn stands in the text.
C17_ExecIdiomsGiveNoExec ==
    Returned("run_all_resource_checks") =>
        /\ (\E p \in ExecIdioms : SpawnReported(p)) => Has(ret.blocked, "no-exec")
        /\ (\E i \in 1..Len(Text(inCode)) : Lower(Text(inCode)[i]) \in {"fork", "spawn"})
                => Has(ret.blocked, "no-fork")

(***************************************************************************)
(* Sources that allocate: one statement for each pattern of                *)
(* LARGE_ALLOC_PATTERNS, and a malloc of a size that is not a literal.     *)
(***************************************************************************)
AllocStatements ==
    {Semi(<<"malloc", "(", "1000000", ")">>),
     Semi(<<"malloc", "(", "n", ")">>),
     Semi(<<"calloc", "(", "1000000", ",", SP, "1", ")">>),
     Semi(<<"new", SP, "int", "[", "1000000", "]">>),
     Semi(<<"std", ":", ":", "vector", "<", "int", ">", SP, "v", "(", "1000000", ")">>),
     CallStmt(Attribute(Name("np"), "zeros"), <<Num("4096")>>),
     CallStmt(Name("bytearray"), <<Num("1000000")>>)}

AllocCodes == UNION {[1..n -> AllocStatements] : n \in 1..MaxStmts}

SubmitAlloc ==
    /\ pc = "idle"
    /\ \E c \in AllocCodes : inCode' = c
    /\ pc' = "pending"
    /\ UNCHANGED <<fn, inHint, lang, result, response, arg, ret, tagging>>

CallDetectLargeAlloc ==
    /\ pc = "pending"
    /\ pc' = "returned" /\ fn' = "detect_large_alloc"
    /\ ret' = detect_large_alloc(Text(inCode))
    /\ UNCHANGED <<inCode, inHint, lang, result, response, arg, tagging>>

AllocNext ==
    \/ SubmitAlloc
    \/ CallDetectLargeAlloc
    \/ CallRunAllResourceChecks
    \/ CallAnalyzeC
    \/ Done

SpecAlloc == Init /\ [][AllocNext]_vars

\* C18: run_all_resource_checks returns no-large-alloc whenever
\* detect_large_alloc reports a finding for the text, whichever pattern it
\* is for: malloc, calloc, new T[n], std::vector, numpy zeros/ones/empty or
\* bytearray.
C18_AllocFindingGivesToken ==
    Returned("run_all_resource_checks") =>
        (detect_large_alloc(Text(inCode)) # <<>> => Has(ret.blocked, "no-large-alloc"))

\* the table, token rule and case mode of the C, C++ and Java detectors
TableOf(name) ==
    CASE name = "analyze_c" ->
            [table |-> C_FORBIDDEN, signals |-> {"exec", "fork"},
             token |-> "no-system-call", ic |-> TRUE]
      [] name = "analyze_cpp" ->
            [table |-> CPP_FORBIDDEN, signals |-> {"system"},
             token |-> "no-system-call", ic |-> TRUE]
      [] name = "analyze_java" ->
            [table |-> JAVA_FORBIDDEN, signals |-> {"exec", "processbuilder"},
             token |-> "no-exec", ic |-> FALSE]

\* the rules of a detector's table that match the text, in table order
MatchedRules(d, t) == SelectSeq(d.table, LAMBDA r : re_search(r.pat, Subject(t, d.ic), d.ic))

\* the six resource sub-checks, in the order run_all_resource_checks runs them
SubChecks(t) ==
    <<detect_infinite_loop(t), detect_large_alloc(t), detect_io_in_loop(t),
      detect_proc_thread_spawn(t), detect_file_write_patterns(t), detect_recursion(t)>>

Clamp(x) == Max(0, Min(100, x))

TableSum(hit) == SumSeq([i \in 1..Len(hit) |-> hit[i].pts])
ResourceSum(checks) == SumSeq([i \in 1..Len(checks) |-> Points(checks[i])])

TableTokens(d, hit) ==
    IF \E i \in 1..Len(hit) : \E w \in d.signals : MsgContains(hit[i].msg, w)
    THEN {d.token} ELSE {}

\* the result r of a detector with table d, for matching rules hit, the
\* sub-check findings checks and the resource tokens
SumsUp(r, d, hit, checks, tokens) ==
    /\ r.score = Clamp(TableSum(hit) + Clamp(ResourceSum(checks)))
    /\ r.reasons = [i \in 1..Len(hit) |-> hit[i].msg]
                    \o Flatten([i \in 1..Len(checks) |-> Reasons(checks[i])])
    /\ Range(r.blocked) = TableTokens(d, hit) \cup Range(tokens)

SumsUpFor(r, d, t) ==
    SumsUp(r, d, MatchedRules(d, t), SubChecks(t), ResourceTokens(Fold(t)))

\* C19: the C, C++ and Java detectors return the score
\* clamp(T + clamp(R, 0, 100), 0, 100), T the sum of the weights of the
\* matching table rules and R the sum of the resource sub-check scores; the
\* reasons are the matching rules' descriptions in table order followed by
\* the sub-checks' reasons in sub-check order; the blocked tokens are those
\* of the table pass together with those of the resource checks.
C19_TablePlusResources ==
    (pc = "returned" /\ fn \in {"analyze_c", "analyze_cpp", "analyze_java"}) =>
        SumsUpFor(result, TableOf(fn), Text(inCode))

\* analyze_c returned for a text with two table rules (85) and two
\* sub-check findings (60): the sum is cut to 100
C19_Witness ==
    /\ Returned("analyze_c")
    /\ TableSum(MatchedRules(TableOf("analyze_c"), Text(inCode))) = 85
    /\ ResourceSum(SubChecks(Text(inCode))) = 60
    /\ result.score = 100
    /\ Len(result.reasons) = 4
    /\ result.blocked = <<"no-fork", "no-system-call">>

(***************************************************************************)
(* Sources with comment lines, with and without a line the parser rejects. *)
(***************************************************************************)
StyleStatements ==
    {Comment(<<"note">>),
     Import(<< <<"os">> >>),
     FunctionDef("f", <<Return>>),
     While(True, <<If(X, <<Break>>, <<>>)>>, <<>>),
     Semi(<<"system", "(", "\"", "ls", "\"", ")">>),
     Raw(<<"eval", "(">>)}

StyleCodes == UNION {[1..n -> StyleStatements] : n \in 1..MaxStmts}

SubmitStyle ==
    /\ pc = "idle"
    /\ \E c \in StyleCodes : inCode' = c
    /\ pc' = "pending"
    /\ UNCHANGED <<fn, inHint, lang, result, response, arg, ret, tagging>>

CallCommentRatio ==
    /\ pc = "pending"
    /\ pc' = "returned" /\ fn' = "comment_ratio"
    /\ ret' = comment_ratio(Text(inCode))
    /\ UNCHANGED <<inCode, inHint, lang, result, response, arg, tagging>>

StyleNext ==
    \/ SubmitStyle
    \/ CallCommentRatio
    \/ CallAnalyzePython
    \/ Done

SpecStyle == Init /\ [][StyleNext]_vars

\* C20: for every source ast.parse rejects, analyze_python returns a style
\* with comment_ratio 0 and avg_function_length 0.
C20_UnparseableStyleIsZero ==
    (Returned("analyze_python") /\ ParseFails(inCode)) =>
        /\ result.style.comment_ratio = 0
        /\ result.style.avg_function_length = 0

\* floor(strict + (generous - strict) * (1 - t)) in exact arithmetic, with
\* t = clamp(score / 100, 0, 1)
ExactFloor(strict, generous, score) ==
    (strict * 100 + (generous - strict) * (100 - Min(Max(score, 0), 100))) \div 100

ExactLimits(score) ==
    Limits(ExactFloor(1, 10, score), ExactFloor(64, 512, score),
           ExactFloor(2, 20, score), ExactFloor(16, 256, score))

\* the scores at which the double-precision value of the stdout limit lies
\* just below the integer the exact value is
StdoutShortfallScores == {55, 80, 90}

\* the statement as the exact formula: every Python limit is the floor of
\* the exact interpolation
C21_LimitsExactFloor ==
    (Returned("suggest_limits") /\ lang = "python") => ret = ExactLimits(arg)

\* C21: for Python and every integer score, the CPU, memory and wall-time
\* limits are the floor of strict + (generous - strict) * (1 - t) and the
\* stdout limit is that floor too, except at the scores 55, 80 and 90, where
\* it is one less; every limit lies between its strict and its generous
\* bound, a score below 0 gives the limits of 0, a score above 100 those of
\* 100, and no limit is higher at a higher score.
C21_LimitsFloorOfDouble ==
    (Returned("suggest_limits") /\ lang = "python") =>
        /\ ret = [ExactLimits(arg) EXCEPT
                    !.stdout_kb = @ - (IF arg \in StdoutShortfallScores THEN 1 ELSE 0)]
        /\ ret.cpu_time_sec \in 1..10 /\ ret.memory_mb \in 64..512
        /\ ret.wall_time_sec \in 2..20 /\ ret.stdout_kb \in 16..256
        /\ arg < 0 => ret = suggest_limits(0, "python")
        /\ arg > 100 => ret = suggest_limits(100, "python")
        /\ \A higher \in Scores :
                higher >= arg =>
                    /\ suggest_limits(higher, "python").cpu_time_sec <= ret.cpu_time_sec
                    /\ suggest_limits(higher, "python").memory_mb <= ret.memory_mb
                    /\ suggest_limits(higher, "python").wall_time_sec <= ret.wall_time_sec
                    /\ suggest_limits(higher, "python").stdout_kb <= ret.stdout_kb

\* suggest_limits(55, "python") has returned 123 for stdout, where the exact
\* value is 124
C21_Witness ==
    /\ Returned("suggest_limits")
    /\ lang = "python" /\ arg = 55
    /\ ret = Limits(5, 265, 10, 123)
    /\ ExactFloor(16, 256, 55) = 124

(***************************************************************************)
(* The infinite-loop step of the tree pass (python_rules.py 149-156) on    *)
(* sources built from the three shapes _detect_infinite_loops_in_ast       *)
(* reports and from their harmless neighbours.                             *)
(***************************************************************************)
I == Name("i")

LoopStatements ==
    {While(True, <<Pass>>, <<>>),
     While(True, <<Break>>, <<>>),
     For(I, Call(Name("count"), <<>>), <<Pass>>, <<>>),
     For(I, Call(Attribute(Name("itertools"), "count"), <<Num("1")>>), <<Pass>>, <<>>),
     For(I, Call(Name("iter"), <<Name("f"), Num("0")>>), <<Pass>>, <<>>),
     For(I, Call(Name("iter"), <<X>>), <<Pass>>, <<>>),
     For(I, X, <<Pass>>, <<>>),
     CallStmt(Name("iter"), <<Name("f"), Num("0")>>)}

LoopCodes == UNION {[1..n -> LoopStatements] : n \in 0..MaxStmts}

SubmitLoops ==
    /\ pc = "idle"
    /\ \E c \in LoopCodes : inCode' = c
    /\ pc' = "pending"
    /\ UNCHANGED <<fn, inHint, lang, result, response, arg, ret, tagging>>

\* inf_reasons = _detect_infinite_loops_in_ast(tree)
CallDetectInfiniteLoopsInTree ==
    /\ pc = "pending"
    /\ pc' = "returned" /\ fn' = "_detect_infinite_loops_in_ast"
    /\ ret' = _detect_infinite_loops_in_ast(Parse(inCode))
    /\ UNCHANGED <<inCode, inHint, lang, result, response, arg, tagging>>

LoopsNext ==
    \/ SubmitLoops
    \/ CallDetectInfiniteLoopsInTree
    \/ CallAnalyzePython
    \/ Done

SpecLoops == Init /\ [][LoopsNext]_vars

\* what the lexical rules and the walk over the tree have found before the
\* infinite-loop step
BeforeLoopStep(code) == PyLexicalFindings(Text(code)) \o WalkFindings(Walk(Parse(code)))

Occurrences(seq, x) == Cardinality({i \in 1..Len(seq) : seq[i] = x})

PenaltyOnce(res, before, inf_reasons) ==
    /\ res.score = Min(100, Points(before) + (IF Len(inf_reasons) > 0 THEN 90 ELSE 0))
    /\ Len(res.reasons) = Len(before) + Len(inf_reasons)
    /\ \A i \in 1..Len(inf_reasons) : res.reasons[Len(before) + i] = inf_reasons[i]
    /\ Occurrences(res.blocked, "infinite-loop") = (IF Len(inf_reasons) > 0 THEN 1 ELSE 0)
    /\ Len(inf_reasons) = 0 =>
          /\ res.score = Min(100, Points(before))
          /\ res.reasons = Reasons(before)
          /\ res.blocked = SortedSet(Tokens(before))

\* C23: the infinite-loop step of the tree pass is all-or-nothing: with one
\* or more findings the raw score grows by 90 exactly once, infinite-loop is
\* added to blocked and one reason is appended per finding; with no finding
\* the step leaves score, reasons and blocked as they were.
C23_LoopPenaltyOnce ==
    (Returned("analyze_python") /\ ~ParseFails(inCode)) =>
        PenaltyOnce(result, BeforeLoopStep(inCode), _detect_infinite_loops_in_ast(Parse(inCode)))

\* a count() loop followed by a for over iter(f, 0): two findings (the
\* count loop, and the iter call met as the second loop's iterable), score 90
C23_Witness ==
    /\ Returned("analyze_python")
    /\ inCode = <<For(I, Call(Name("count"), <<>>), <<Pass>>, <<>>),
                  For(I, Call(Name("iter"), <<Name("f"), Num("0")>>), <<Pass>>, <<>>)>>
    /\ Len(_detect_infinite_loops_in_ast(Parse(inCode))) = 2
    /\ result.score = 90
    /\ result.blocked = <<"infinite-loop">>
    /\ Len(result.reasons) = 2

(***************************************************************************)
(* The endpoint on a request whose resolved language is not python         *)
(* (main.py 23-25, generic_rules.py, scoring.py 1-4).                      *)
(***************************************************************************)
GenericScores == {0, 25, 30, 55}

GenericMessages == {GENERIC_RULES[i].msg : i \in 1..Len(GENERIC_RULES)}

\* C24: through the analyze endpoint a request whose resolved language is not
\* python is scored by the generic detector only: its score is 0, 25, 30 or
\* 55, blocked is empty, hard_block is false and no resource heuristic has
\* contributed, so that the verdict is allow or sandbox and never block.
C24_NonPythonNeverBlocked ==
    (Returned("analyze") /\ response.status = 200 /\ lang # "python") =>
        /\ result = analyze_generic(inCode)
        /\ result.score \in GenericScores
        /\ result.blocked = <<>>
        /\ result.hard_block = FALSE
        /\ \A i \in 1..Len(result.reasons) : result.reasons[i] \in GenericMessages
        /\ response.risk_score = result.score
        /\ response.blocked_rules = <<>>
        /\ response.decision \in {"allow", "sandbox"}
        /\ response.decision = "sandbox" <=> result.score = 55

\* a request declared as c with eval( and fork(): the C table and the
\* resource heuristics would block it, the endpoint answers sandbox at 55
C24_Witness ==
    /\ Returned("analyze") /\ response.status = 200
    /\ inHint = "c" /\ lang = "c"
    /\ result.score = 55
    /\ response.decision = "sandbox"
    /\ decision_logic(analyze_c(inCode).score)[1] = "block"

(***************************************************************************)
(* Local tagger (app/emoji/tagger.py).  A score is kept in tenths, so that *)
(* the weights 2, 1.5, 1.0, 0.5 and the boost factor 0.8 stay integers.    *)
(* An emoji is written as the code points it consists of.                  *)
(***************************************************************************)
EMOJI_MAP ==
    <<[label |-> "ai", toss_id |-> "toss_ai_01", uni |-> "U1F916",
       libs |-> {"torch", "tensorflow", "keras", "pytorch", "transformers", "onnx", "xgboost", "lightgbm"}],
      [label |-> "ml_research", toss_id |-> "toss_brain_01", uni |-> "U1F9E0",
       libs |-> {"model", "train", "fit", "loss", "optimizer", "inference", "eval"}],
      [label |-> "tests", toss_id |-> "toss_lab_01", uni |-> "U1F9EA",
       libs |-> {"pytest", "unittest", "assert", "tox", "mock"}],
      [label |-> "analytics", toss_id |-> "toss_data_01", uni |-> "U1F4CA",
       libs |-> {"pandas", "numpy", "dataframe", "groupby", "aggregate", "analytics", "read_csv"}],
      [label |-> "performance", toss_id |-> "toss_perf_01", uni |-> "U1F4C8",
       libs |-> {"benchmark", "profile", "timeit", "latency", "throughput", "perf"}],
      [label |-> "web", toss_id |-> "toss_web_01", uni |-> "U1F310",
       libs |-> {"fastapi", "flask", "django", "starlette", "request", "response", "endpoint", "httpx", "requests", "aiohttp"}],
      [label |-> "db", toss_id |-> "toss_db_01", uni |-> "U1F6E2+UFE0F",
       libs |-> {"sqlalchemy", "pymongo", "psycopg2", "pymysql", "redis", "sqlite3", "mongodb", "query"}],
      [label |-> "sys", toss_id |-> "toss_sys_01", uni |-> "U1F6E0+UFE0F",
       libs |-> {"os", "sys", "shutil", "pathlib", "subprocess", "multiprocessing"}],
      [label |-> "network", toss_id |-> "toss_net_01", uni |-> "U1F517",
       libs |-> {"socket", "grpc", "websocket", "http.client", "requests", "aiohttp"}],
      [label |-> "security", toss_id |-> "toss_sec_01", uni |-> "U1F512",
       libs |-> {"hashlib", "hmac", "cryptography", "jwt", "secrets", "encrypt", "decrypt", "token"}],
      [label |-> "infra", toss_id |-> "toss_infra_01", uni |-> "U1F433",
       libs |-> {"docker", "dockerfile", "compose", "kubernetes", "kubectl", "helm", "container"}],
      [label |-> "mlops", toss_id |-> "toss_mlops_01", uni |-> "U2699+UFE0F",
       libs |-> {"mlflow", "sagemaker", "airflow", "kubeflow", "dag", "pipeline"}],
      [label |-> "devtools", toss_id |-> "toss_dev_01", uni |-> "U1F9F0",
       libs |-> {"cli", "click", "argparse", "setup.py", "makefile"}],
      [label |-> "packaging", toss_id |-> "toss_pack_01", uni |-> "U1F4E6",
       libs |-> {"wheel", "pip", "setuptools", "poetry", "artifact"}],
      [label |-> "deploy", toss_id |-> "toss_deploy_01", uni |-> "U1F680",
       libs |-> {"deploy", "release", "k8s", "helm", "rolling"}],
      [label |-> "mobile", toss_id |-> "toss_mobile_01", uni |-> "U1F4F1",
       libs |-> {"android", "ios", "kotlin", "swift", "react-native", "flutter"}],
      [label |-> "game", toss_id |-> "toss_game_01", uni |-> "U1F3AE",
       libs |-> {"pygame", "unity", "godot", "render", "frame", "fps"}],
      [label |-> "image", toss_id |-> "toss_image_01", uni |-> "U1F5BC+UFE0F",
       libs |-> {"opencv", "PIL", "pillow", "cv2", "image", "jpeg", "png"}],
      [label |-> "audio", toss_id |-> "toss_audio_01", uni |-> "U1F3A7",
       libs |-> {"librosa", "soundfile", "pyaudio", "wave", "wav", "mp3"}],
      [label |-> "video", toss_id |-> "toss_video_01", uni |-> "U1F3AC",
       libs |-> {"ffmpeg", "cv2.videocapture", "stream", "hls", "rtmp"}],
      [label |-> "analysis", toss_id |-> "toss_debug_01", uni |-> "U1F50D",
       libs |-> {"debug", "trace", "inspect", "pdb", "logging", "traceback"}],
      [label |-> "plugin", toss_id |-> "toss_plugin_01", uni |-> "U1F9E9",
       libs |-> {"plugin", "extension", "hook", "register"}],
      [label |-> "scheduler", toss_id |-> "toss_sched_01", uni |-> "U1F501",
       libs |-> {"cron", "schedule", "apscheduler", "celery", "beat"}],
      [label |-> "docs", toss_id |-> "toss_docs_01", uni |-> "U1F4DA",
       libs |-> {"docs", "readme", "sphinx", "mkdocs", "swagger", "openapi"}],
      [label |-> "logging", toss_id |-> "toss_log_01", uni |-> "U1F9FE",
       libs |-> {"logging", "audit", "access_log", "auditlog"}],
      [label |-> "routing", toss_id |-> "toss_route_01", uni |-> "U1F9ED",
       libs |-> {"route", "router", "endpoint", "path", "url"}],
      [label |-> "blockchain", toss_id |-> "toss_chain_01", uni |-> "U1FA99",
       libs |-> {"web3", "ethers", "solidity", "contract", "smartcontract", "blockchain"}],
      [label |-> "telemetry", toss_id |-> "toss_tele_01", uni |-> "U1F4E1",
       libs |-> {"mqtt", "edge", "iot", "sensor", "telemetry"}],
      [label |-> "warning", toss_id |-> "toss_warn_01", uni |-> "U26A0+UFE0F",
       libs |-> {"eval", "exec", "__import__", "os.system", "rm -rf", "fork", "ctypes"}],
      [label |-> "script", toss_id |-> "toss_snake_01", uni |-> "U1F40D",
       libs |-> {"python", ".py", "shebang", "def", "import"}]>>

KEYWORD_MAP ==
    "model" :> "ai" @@ "train" :> "ai" @@ "inference" :> "ai" @@
    "predict" :> "ai" @@ "dataframe" :> "analytics" @@ "csv" :> "analytics" @@
    "read_csv" :> "analytics" @@ "request" :> "web" @@ "response" :> "web" @@
    "endpoint" :> "web" @@ "query" :> "db" @@ "cursor" :> "db" @@
    "socket" :> "network" @@ "listen" :> "network" @@ "encrypt" :> "security" @@
    "decrypt" :> "security" @@ "token" :> "security" @@ "docker" :> "infra" @@
    "container" :> "infra" @@ "cron" :> "scheduler" @@ "celery" :> "scheduler" @@
    "pytest" :> "tests" @@ "unittest" :> "tests"

COMMON_IGNORE == {"__init__", "__main__", "__name__", "self"}

\* the labels in the order sorted() gives strings
LabelOrder ==
    <<"ai", "analysis", "analytics", "audio", "blockchain", "db",
      "deploy", "devtools", "docs", "game", "image", "infra",
      "logging", "ml_research", "mlops", "mobile", "network", "packaging",
      "performance", "plugin", "routing", "scheduler", "script", "security",
      "sys", "telemetry", "tests", "video", "warning", "web">>

\* lib in token, for the identifiers of EmojiCodes: the keywords of EMOJI_MAP
\* that occur inside the token
LibsIn(token) ==
    CASE token = "os" -> {"os"}
      [] token = "torch" -> {"torch"}
      [] token = "pandas" -> {"pandas"}
      [] token = "train" -> {"train"}
      [] OTHER -> {}

\* the elements of a list in the order of their first occurrence
Dedupe(s) ==
    LET first == SelectSeq([i \in 1..Len(s) |-> i], LAMBDA i : \A j \in 1..(i - 1) : s[j] # s[i])
    IN  [k \in 1..Len(first) |-> s[first[k]]]

\* what one node of the walk adds to imports, call_names, attr_names, names
ImportsOf(node) ==
    CASE node.type = "Import" -> [i \in 1..Len(node.names) |-> Head(node.names[i])]
      [] node.type = "ImportFrom" ->
            (IF node.module # <<>> THEN <<Head(node.module)>> ELSE <<>>)
            \o [i \in 1..Len(node.names) |-> Head(node.names[i])]
      [] OTHER -> <<>>

CallNamesOf(node) ==
    IF node.type # "Call" THEN <<>>
    ELSE CASE node.func.type = "Name" -> <<node.func.id>>
           [] node.func.type = "Attribute" ->
                 IF node.func.value.type = "Name" THEN <<node.func.value.id>> ELSE <<>>
           [] OTHER -> <<>>

AttrNamesOf(node) ==
    CASE node.type = "Call" -> IF node.func.type = "Attribute" THEN <<node.func.attr>> ELSE <<>>
      [] node.type = "Attribute" -> <<node.attr>>
      [] OTHER -> <<>>

NamesOf(node) ==
    IF node.type = "Name" /\ node.id \notin COMMON_IGNORE THEN <<node.id>> ELSE <<>>

\* the try branch of _ast_extract, on the nodes of ast.walk(tree)
_ast_extract(nodes) ==
    [imports |-> Dedupe(Fold(Flatten([i \in 1..Len(nodes) |-> ImportsOf(nodes[i])]))),
     call_names |-> Fold(Flatten([i \in 1..Len(nodes) |-> CallNamesOf(nodes[i])])),
     attr_names |-> Fold(Flatten([i \in 1..Len(nodes) |-> AttrNamesOf(nodes[i])])),
     names |-> Fold(Flatten([i \in 1..Len(nodes) |-> NamesOf(nodes[i])]))]

\* what one occurrence of a token, counted with weight w, adds to the score
\* of a label: w per keyword of the label inside the token, and 0.8 w when
\* KEYWORD_MAP sends the token to the label
Gain(token, entry, w) ==
    w * Cardinality(entry.libs \cap LibsIn(token))
    + (IF token \in DOMAIN KEYWORD_MAP /\ KEYWORD_MAP[token] = entry.label
       THEN (w * 8) \div 10 ELSE 0)

Gains(tokens, entry, w) == SumSeq([i \in 1..Len(tokens) |-> Gain(tokens[i], entry, w)])

\* "import pandas" in lower or "read_csv" in lower
MentionsPandas(lower) ==
    \/ \E i \in 1..Len(lower) :
          lower[i] = "import" /\ At(lower, i + 1) = SP /\ At(lower, i + 2) = "pandas"
    \/ \E i \in 1..Len(lower) : lower[i] = "read_csv"

\* "def main" in lower and "argparse" in lower
MentionsMainAndArgparse(lower) ==
    /\ \E i \in 1..Len(lower) :
          lower[i] = "def" /\ At(lower, i + 1) = SP /\ At(lower, i + 2) = "main"
    /\ \E i \in 1..Len(lower) : lower[i] = "argparse"

Heuristics(label, lower) ==
    (IF label = "analytics" /\ MentionsPandas(lower) THEN 20 ELSE 0)
    + (IF label = "devtools" /\ MentionsMainAndArgparse(lower) THEN 5 ELSE 0)

LabelScore(info, lower, entry) ==
    Gains(info.imports, entry, 20) + Gains(info.call_names, entry, 15)
    + Gains(info.attr_names, entry, 10) + Gains(info.names, entry, 5)
    + Heuristics(entry.label, lower)

TaggerScores(info, lower) == [i \in 1..Len(EMOJI_MAP) |-> LabelScore(info, lower, EMOJI_MAP[i])]

LabelRank(label) == CHOOSE k \in 1..Len(LabelOrder) : LabelOrder[k] = label

\* sorted(scores.items(), key=lambda x: (-x[1], x[0])): i comes before j
ComesBefore(scores, i, j) ==
    \/ scores[i] > scores[j]
    \/ scores[i] = scores[j] /\ LabelRank(EMOJI_MAP[i].label) < LabelRank(EMOJI_MAP[j].label)

\* the entries of EMOJI_MAP with a score, in that order
Ordered(scores) ==
    LET scored == {i \in 1..Len(scores) : scores[i] > 0}
        place(i) == 1 + Cardinality({j \in scored : ComesBefore(scores, j, i)})
    IN  [k \in 1..Cardinality(scored) |-> CHOOSE i \in scored : place(i) = k]

TopN(ordered, top_n) == SubSeq(ordered, 1, Min(top_n, Len(ordered)))

\* score_snapshot: the labels that have a score
Snapshot(scores) ==
    [label \in {EMOJI_MAP[i].label : i \in {j \in 1..Len(scores) : scores[j] > 0}} |->
        scores[CHOOSE i \in 1..Len(scores) : EMOJI_MAP[i].label = label]]

\* the return of map_emojis for the chosen labels, lines 215-240
Tagged(chosen, scores) ==
    [emoji_ids |-> TopN(Dedupe([k \in 1..Len(chosen) |-> EMOJI_MAP[chosen[k]].toss_id]), 3),
     emojis |-> TopN(Dedupe([k \in 1..Len(chosen) |-> EMOJI_MAP[chosen[k]].uni]), 3),
     emoji_labels |-> [k \in 1..Len(chosen) |-> EMOJI_MAP[chosen[k]].label],
     tags |-> [k \in 1..Len(chosen) |-> EMOJI_MAP[chosen[k]].label],
     scores |-> Snapshot(scores)]

\* the fallback of lines 201-209
ScriptOnly ==
    [emoji_ids |-> <<"toss_snake_01">>,
     emojis |-> <<"U1F40D">>,
     emoji_labels |-> <<"script">>,
     tags |-> <<"script">>,
     scores |-> [label \in {} |-> 0]]

ChooseLabels(scores) ==
    IF \A i \in 1..Len(scores) : scores[i] = 0 THEN ScriptOnly
    ELSE Tagged(TopN(Ordered(scores), 3), scores)

\* the sources the tagging is asked for
EmojiCodes ==
    {<<Pass>>,
     <<CallStmt(Attribute(Name("torch"), "train"), <<>>)>>,
     <<Import(<< <<"os">> >>), Import(<< <<"torch">> >>), Import(<< <<"pandas">> >>)>>}

\* map_emojis on a source ast.parse accepts
map_emojis(code) == ChooseLabels(TaggerScores(_ast_extract(Walk(Parse(code))), Fold(Text(code))))

(***************************************************************************)
(* Model tagger (app/emoji/openai_tagger.py).  A value that came out of    *)
(* json.loads keeps its Python type: a list, a str (its items are its      *)
(* characters), None or a dict.  A call either gives a value or raises.    *)
(***************************************************************************)
ALLOWED_EMOJI ==
    <<[id |-> "toss_star", label |-> "stars", emoji |-> "U2B50"],
      [id |-> "toss_ascii", label |-> "ascii_art", emoji |-> "U1F5BC+UFE0F"],
      [id |-> "toss_chart", label |-> "chart", emoji |-> "U1F4C8"],
      [id |-> "toss_table", label |-> "table", emoji |-> "U1F4CA"],
      [id |-> "toss_data", label |-> "data_processing", emoji |-> "U1F9EA"],
      [id |-> "toss_ml", label |-> "machine_learning", emoji |-> "U1F916"],
      [id |-> "toss_dl", label |-> "deep_learning", emoji |-> "U1F9E0"],
      [id |-> "toss_web", label |-> "web", emoji |-> "U1F310"],
      [id |-> "toss_api", label |-> "api", emoji |-> "U1F50C"],
      [id |-> "toss_db", label |-> "database", emoji |-> "U1F6E2+UFE0F"],
      [id |-> "toss_io", label |-> "io", emoji |-> "U1F4CE"],
      [id |-> "toss_sys", label |-> "system", emoji |-> "U1F6E0+UFE0F"],
      [id |-> "toss_net", label |-> "networking", emoji |-> "U1F517"],
      [id |-> "toss_crypto", label |-> "crypto", emoji |-> "U1F510"],
      [id |-> "toss_async", label |-> "async", emoji |-> "U26A1"],
      [id |-> "toss_test", label |-> "testing", emoji |-> "U2705"],
      [id |-> "toss_algo", label |-> "algorithm", emoji |-> "U2699+UFE0F"],
      [id |-> "toss_math", label |-> "math", emoji |-> "U2797"],
      [id |-> "toss_visual", label |-> "ui_visual", emoji |-> "U1F3A8"],
      [id |-> "toss_game", label |-> "game", emoji |-> "U1F3AE"],
      [id |-> "toss_devops", label |-> "devops", emoji |-> "U1F527"],
      [id |-> "toss_monitor", label |-> "monitoring", emoji |-> "U1F4E1"],
      [id |-> "toss_stream", label |-> "stream", emoji |-> "U1F501"],
      [id |-> "toss_regex", label |-> "parsing", emoji |-> "U1F50D"],
      [id |-> "toss_image", label |-> "image", emoji |-> "U1F5BC+UFE0F"],
      [id |-> "toss_audio", label |-> "audio", emoji |-> "U1F3A7"],
      [id |-> "toss_robot", label |-> "automation", emoji |-> "U1F916"],
      [id |-> "toss_security", label |-> "security", emoji |-> "U1F6E1+UFE0F"],
      [id |-> "toss_text", label |-> "nlp", emoji |-> "U1F4DD"],
      [id |-> "toss_fun", label |-> "fun_snippet", emoji |-> "U1F604"]>>

ALLOWED_IDS == {ALLOWED_EMOJI[i].id : i \in 1..Len(ALLOWED_EMOJI)}

PyList(items) == [type |-> "list", items |-> items]
PyStr(items) == [type |-> "str", items |-> items]
PyNone == [type |-> "NoneType"]
PyDict(fields) == [type |-> "dict", fields |-> fields]

Raises == [raised |-> TRUE]
Gives(value) == [raised |-> FALSE, value |-> value]

\* the attempts of line 183
MaxAttempts == 3

\* the first balanced {...} of a text, if any; a text is the sequence of its
\* parts, each of them prose or one JSON value
_extract_first_json(text) == SelectSeq(text, LAMBDA part : part.type = "dict")

\* lines 195-214: the object the text of a response is parsed to
ParsedObject(text) ==
    IF text = <<>> THEN Raises
    ELSE IF _extract_first_json(text) # <<>> THEN Gives(_extract_first_json(text)[1])
    ELSE IF Len(text) = 1 /\ text[1].type # "prose" THEN Gives(text[1])
    ELSE Raises

\* obj.get(key, [])
GetList(obj, key) == IF key \in DOMAIN obj.fields THEN obj.fields[key] ELSE PyList(<<>>)

\* value[:n]
Slice(value, n) == [value EXCEPT !.items = TopN(@, n)]

\* [i for i in value if i in ALLOWED_IDS]
AllowedOf(value) == PyList(SelectSeq(value.items, LAMBDA i : i \in ALLOWED_IDS))

Sliceable(value) == value.type \in {"list", "str"}

\* lines 237-244
ValidatedResult(obj, ids, usage_dict) ==
    [emoji_ids |-> ids,
     emoji_labels |-> Slice(GetList(obj, "emoji_labels"), Len(ids.items)),
     emojis |-> Slice(GetList(obj, "emojis"), Len(ids.items)),
     reasons |-> Slice(GetList(obj, "reasons"), Len(ids.items)),
     confidence |-> IF "confidence" \in DOMAIN obj.fields THEN obj.fields["confidence"] ELSE "low",
     openai_usage |-> usage_dict]

\* lines 217-244: validate ids and shape
Validated(obj, usage_dict) ==
    IF obj.type # "dict" THEN Raises
    ELSE IF \E key \in {"emoji_ids", "emoji_labels", "emojis", "reasons"} :
                ~Sliceable(GetList(obj, key))
    THEN Raises
    ELSE Gives(ValidatedResult(obj, AllowedOf(GetList(obj, "emoji_ids")), usage_dict))

\* one pass through the try block of lines 184-255, up to the cache write
AttemptResult(resp) ==
    IF resp.raises THEN Raises
    ELSE IF ParsedObject(resp.output_text).raised THEN Raises
    ELSE Validated(ParsedObject(resp.output_text).value, resp.usage)

\* res.setdefault("fallback_used", False); res["fallback_used"] = value
SetDefaultFallbackUsed(res) ==
    [key \in DOMAIN res \cup {"fallback_used"} |->
        IF key \in DOMAIN res THEN res[key] ELSE FALSE]

Appendable(value) == value.type = "list"

PyAppend(value, item) == [value EXCEPT !.items = Append(@, item)]

\* lines 287-290
AppendLocal(res, local, i) ==
    [res EXCEPT !.emoji_ids = PyAppend(@, local.emoji_ids[i]),
                !.emoji_labels = PyAppend(@, local.emoji_labels[i]),
                !.emojis = PyAppend(@, IF i <= Len(local.emojis) THEN local.emojis[i] ELSE ""),
                !.reasons = PyAppend(@, "local-fallback")]

\* the loop of lines 284-293, from the i-th label of the local result on
RECURSIVE MergeLocal(_, _, _)
MergeLocal(res, local, i) ==
    IF i > Len(local.emoji_labels) THEN Gives(res)
    ELSE IF i <= Len(local.emoji_ids) /\ ~Has(res.emoji_ids.items, local.emoji_ids[i])
    THEN IF ~(Appendable(res.emoji_labels) /\ Appendable(res.emojis) /\ Appendable(res.reasons))
         THEN Raises
         ELSE IF Len(res.emoji_ids.items) + 1 >= 2 THEN Gives(AppendLocal(res, local, i))
         ELSE MergeLocal(AppendLocal(res, local, i), local, i + 1)
    ELSE IF Len(res.emoji_ids.items) >= 2 THEN Gives(res)
    ELSE MergeLocal(res, local, i + 1)

\* local_fallback_callable(code) for the callable the endpoint passes:
\* map_emojis is a pure function, evaluated once per source of the pool
LocalTaggings == [code \in EmojiCodes |-> map_emojis(code)]

CallLocal(code) == LocalTaggings[code]

\* lines 276-296: the try block of get_openai_emojis_safe once
\* ask_gpt_for_emojis has returned res
Supplemented(res, callable, code) ==
    IF Len(res.emoji_ids.items) < 2 /\ callable # None
    THEN MergeLocal(SetDefaultFallbackUsed(res), CallLocal(code), 1)
    ELSE Gives(SetDefaultFallbackUsed(res))

\* lines 301-309
FromLocal(lf) ==
    [emoji_ids |-> PyList(lf.emoji_ids),
     emoji_labels |-> PyList(lf.emoji_labels),
     emojis |-> PyList(lf.emojis),
     reasons |-> PyList(<<>>),
     confidence |-> "low",
     openai_usage |-> PyNone,
     fallback_used |-> TRUE]

\* lines 312-320
EmptyStructure ==
    [emoji_ids |-> PyList(<<>>),
     emoji_labels |-> PyList(<<>>),
     emojis |-> PyList(<<>>),
     reasons |-> PyList(<<>>),
     confidence |-> "low",
     openai_usage |-> PyNone,
     fallback_used |-> TRUE]

\* the except branch, lines 297-320
LocalFallback(callable, code) ==
    IF callable # None THEN FromLocal(CallLocal(code)) ELSE EmptyStructure

Tried(asked, callable, code) ==
    IF asked.raised THEN Raises ELSE Supplemented(asked.value, callable, code)

\* the value returned from the try block, or from the except branch
TriedOrFallback(tried, callable, code) ==
    IF tried.raised THEN LocalFallback(callable, code) ELSE tried.value

\* get_openai_emojis_safe, given what ask_gpt_for_emojis returned or raised
get_openai_emojis_safe(asked, callable, code) ==
    TriedOrFallback(Tried(asked, callable, code), callable, code)

(***************************************************************************)
(* get_openai_emojis_safe as the endpoint calls it (main.py 29).  The      *)
(* model answers each attempt in one of the ways of ModelReplies; a run of *)
(* ask_gpt_for_emojis is a step to the cache and one step per attempt.     *)
(***************************************************************************)
Prose == [type |-> "prose"]

NoFields == [key \in {} |-> PyNone]

Usage == PyDict([input_tokens |-> 1, output_tokens |-> 1, total_tokens |-> 2])

Response(output_text, usage) == [raises |-> FALSE, output_text |-> output_text, usage |-> usage]

\* what _client.responses.create does on one attempt: it raises (time-out,
\* API error), or it returns a response with no text, with prose only, with
\* a bare JSON array of strings, or with a JSON object
ModelReplies ==
    {[raises |-> TRUE],
     Response(<<>>, PyNone),
     Response(<<Prose>>, PyNone),
     Response(<<PyList(<<"toss_web">>)>>, PyNone),
     Response(<<Prose, PyDict([emoji_ids |-> PyList(<<"toss_web", "toss_api">>),
                               emoji_labels |-> PyList(<<"web", "api">>),
                               emojis |-> PyList(<<"U1F310", "U1F50C">>),
                               reasons |-> PyList(<<"serves requests", "defines routes">>),
                               confidence |-> "high"])>>, Usage),
     Response(<<PyDict([emoji_ids |-> PyList(<<"toss_web", "toss_rocket">>),
                        emoji_labels |-> PyList(<<"web", "rocket">>),
                        emojis |-> PyList(<<"U1F310", "U1F680">>),
                        reasons |-> PyList(<<"serves requests", "launches">>)])>>, PyNone),
     Response(<<PyDict(NoFields)>>, PyNone),
     Response(<<PyDict([emoji_ids |-> PyList(<<"toss_web">>),
                        emoji_labels |-> PyStr(<<"w", "e", "b">>),
                        emojis |-> PyList(<<"U1F310">>),
                        reasons |-> PyList(<<"serves requests">>)])>>, PyNone),
     Response(<<PyDict([emoji_ids |-> PyList(<<"toss_web">>),
                        emoji_labels |-> PyNone])>>, PyNone)}

\* a cache file: the JSON of a result, or bytes json.load rejects
Readable(data) == [readable |-> TRUE, data |-> data]
Unreadable == [readable |-> FALSE]

\* os.path.exists(cache_path) and json.load succeeds
CacheHit(files, code) == code \in DOMAIN files /\ files[code].readable

WriteOutcomes == {"written", "truncated", "untouched"}

\* lines 247-251: json.dump to the cache file; open or dump may fail
Written(files, code, res, outcome) ==
    IF outcome = "untouched" THEN files
    ELSE [c \in DOMAIN files \cup {code} |->
            IF c # code THEN files[c]
            ELSE IF outcome = "written" THEN Readable(res) ELSE Unreadable]

\* the service starts with or without OPENAI_API_KEY (lines 34-35)
LoadClient ==
    /\ pc = "idle"
    /\ \E key \in BOOLEAN : _client' = IF key THEN "OpenAI" ELSE None
    /\ UNCHANGED <<pc, fn, inCode, inHint, lang, result, response, arg, ret,
                   cache, attempt, local_fallback_callable>>

SubmitTagging ==
    /\ pc = "idle"
    /\ \E c \in EmojiCodes : inCode' = c
    /\ \E f \in {None, "map_emojis"} : local_fallback_callable' = f
    /\ pc' = "pending" /\ attempt' = 0
    /\ UNCHANGED <<fn, inHint, lang, result, response, arg, ret, _client, cache>>

\* get_openai_emojis_safe returns, ask_gpt_for_emojis having given asked
ReturnSafe(asked) ==
    /\ pc' = "returned"
    /\ result' = asked
    /\ ret' = get_openai_emojis_safe(asked, local_fallback_callable, inCode)

\* lines 166-180: the client check and the cache lookup
AskGptForEmojis ==
    /\ pc = "pending"
    /\ fn' = "get_openai_emojis_safe"
    /\ IF _client = None THEN ReturnSafe(Raises)
       ELSE IF CacheHit(cache, inCode) THEN ReturnSafe(Gives(cache[inCode].data))
       ELSE pc' = "calling" /\ UNCHANGED <<result, ret>>
    /\ UNCHANGED <<inCode, inHint, lang, response, arg, tagging>>

\* the end of one pass through the loop body, lines 246-261
Answered(out, outcome) ==
    IF ~out.raised
    THEN ReturnSafe(out) /\ cache' = Written(cache, inCode, out.value, outcome)
    ELSE IF attempt + 1 = MaxAttempts
    THEN ReturnSafe(Raises) /\ UNCHANGED cache
    ELSE UNCHANGED <<pc, result, ret, cache>>

\* one pass through the loop of line 183
Attempt ==
    /\ pc = "calling"
    /\ attempt' = attempt + 1
    /\ \E resp \in ModelReplies : \E outcome \in WriteOutcomes :
          Answered(AttemptResult(resp), outcome)
    /\ UNCHANGED <<fn, inCode, inHint, lang, response, arg, _client, local_fallback_callable>>

TaggingNext ==
    \/ LoadClient
    \/ SubmitTagging
    \/ AskGptForEmojis
    \/ Attempt
    \/ Done

\* a request is served to its end: every model call returns or raises within
\* its timeout, and the sleep between two attempts ends
SpecTagging ==
    Init /\ [][TaggingNext]_vars /\ WF_vars(AskGptForEmojis) /\ WF_vars(Attempt)

ResultKeys ==
    {"emoji_ids", "emoji_labels", "emojis", "reasons", "confidence", "openai_usage",
     "fallback_used"}

TaggingReturned == Returned("get_openai_emojis_safe")

\* ask_gpt_for_emojis raised: the client is missing or the last of the
\* attempts has failed as all before it
AskRaised == result.raised

\* a dict with the seven keys comes back
ReturnsTheDict == TaggingReturned => DOMAIN ret = ResultKeys

\* at most three model calls, none once an attempt has succeeded, and a
\* raise only without a client or after the third failure
AttemptsBounded ==
    /\ attempt \in 0..3
    /\ pc = "calling" => (attempt < 3 /\ result = NoResult)
    /\ (TaggingReturned /\ AskRaised) => (_client = None \/ attempt = 3)
    /\ (TaggingReturned /\ _client = None) => (AskRaised /\ attempt = 0)

\* a model call is a step of the loop; a readable cache file answers the
\* request without one
AttemptStep ==
    /\ attempt' # attempt => (attempt' = 0 \/ (pc = "calling" /\ attempt' = attempt + 1))
    /\ (pc = "pending" /\ _client # None /\ CacheHit(cache, inCode)) =>
          (pc' = "returned" /\ attempt' = 0 /\ ~result'.raised)

\* fallback_used is true exactly when ask_gpt_for_emojis raised, and then the
\* local tagger's result or the empty structure is what comes back
FallbackUsedExact ==
    TaggingReturned =>
        /\ ret.fallback_used <=> AskRaised
        /\ ret.fallback_used => ret = LocalFallback(local_fallback_callable, inCode)

\* every request gets its answer
AlwaysReturns == (pc = "pending") ~> (pc = "returned")

\* C22: get_openai_emojis_safe never raises and always returns a dict with
\* emoji_ids, emoji_labels, emojis, reasons, confidence, openai_usage and
\* fallback_used; the model is called at most 3 times per request, not after
\* a success and not at all on a readable cache hit; fallback_used is true
\* exactly when every attempt failed or the client is not configured, the
\* local tagger's result or the empty structure being returned, and false
\* whenever the model call succeeded, also when the result was supplemented.
C22_SafeTagging ==
    /\ [](ReturnsTheDict /\ AttemptsBounded /\ FallbackUsedExact)
    /\ [][AttemptStep]_vars
    /\ AlwaysReturns

\* what holds of the claim: all but the tie of fallback_used to the outcome
\* of the model call
C22_ReturnsWithinThreeAttempts ==
    /\ [](ReturnsTheDict /\ AttemptsBounded)
    /\ [][AttemptStep]_vars
    /\ AlwaysReturns

\* the model answers with a string where a list of labels is expected: the
\* call succeeds and is cached, the supplementing raises on it, and the local
\* result comes back with fallback_used true
C22_SucceededButFallback ==
    /\ TaggingReturned
    /\ ~AskRaised /\ attempt = 1
    /\ result.value.emoji_labels.type = "str"
    /\ ret.fallback_used
    /\ ret = LocalFallback(local_fallback_callable, inCode)

====
